---- MODULE Spec2Model ----
(***************************************************************************)
(* A model of the QADatabase store (src/unnamed/part_000) and of the       *)
(* helpers of src/utils.js it calls: the document, the dirty flag, the     *)
(* debounce timer, the localStorage blob, and one action per store method. *)
(* JavaScript strings that the code takes apart (questions, keywords,      *)
(* category names, tags) are TLA+ strings spelled out by Spell; ids are    *)
(* integers, 0 being a falsy id.                                           *)
(***************************************************************************)
EXTENDS Integers, Sequences, FiniteSets, TLC

(* ----- bounds of the model ----- *)
\* the most records the document holds before addPrompt and a merging import are cut off
MaxQas == 3
\* incrementViews is cut off at this many views
MaxViews == 1
\* the clock stops after this many ticks
MaxTicks == 33

(* ----- program constants ----- *)
DebounceDelay == 2000
AutoSaveInterval == 30000
DayMs == 86400000
MinRating == 0
MaxRating == 5

VARIABLES
  data,             \* this.data: the document
  isDirty,          \* this.isDirty
  autoSaveTimeout,  \* the pending debounce timer: {} or {the time it is due}
  autoSaveInterval, \* the interval timer of setupAutoSave: {} or {the time of its next tick}
  observers,        \* this.observers: the subscriptions, [event, callback], oldest first
  invoked,          \* the callbacks the last call invoked, in order
  localStorage,     \* the backend: key -> serialized value
  emitted,          \* the events the last call emitted, in order
  call,             \* the last call and its arguments
  result,           \* what the last call gave its caller: a return value or a throw
  now               \* Date.now()

vars ==
  <<data, isDirty, autoSaveTimeout, autoSaveInterval, observers, invoked, localStorage, emitted,
    call, result, now>>

(* ----- JavaScript values ----- *)
Has(o, k) == k \in DOMAIN o

\* { ...a, ...b }
ObjectSpread(a, b) ==
  [k \in (DOMAIN a) \cup (DOMAIN b) |-> IF k \in DOMAIN b THEN b[k] ELSE a[k]]

\* [...new Set(seq)]: the first occurrence of each element, in order
RECURSIVE Dedupe(_)
Dedupe(seq) ==
  IF seq = <<>> THEN <<>>
  ELSE LET front == Dedupe(SubSeq(seq, 1, Len(seq) - 1))
           last == seq[Len(seq)]
       IN IF \E i \in 1..Len(front) : front[i] = last THEN front ELSE Append(front, last)

\* array.slice(0, n)
Slice(seq, n) == SubSeq(seq, 1, IF Len(seq) < n THEN Len(seq) ELSE n)

Includes(seq, x) == \E i \in 1..Len(seq) : seq[i] = x

\* array.indexOf(x), counted from 1; 0 when absent
IndexOf(seq, x) ==
  IF Includes(seq, x) THEN CHOOSE i \in 1..Len(seq) : seq[i] = x /\ \A j \in 1..(i - 1) : seq[j] # x
  ELSE 0

RemoveAt(seq, i) == SubSeq(seq, 1, i - 1) \o SubSeq(seq, i + 1, Len(seq))

Max(a, b) == IF a > b THEN a ELSE b
Min(a, b) == IF a < b THEN a ELSE b

(* ----- strings ----- *)
Spell ==
  "" :> <<>>
  @@ " " :> <<" ">>
  @@ "Fix SQL bug" :> <<"F", "i", "x", " ", "S", "Q", "L", " ", "b", "u", "g">>
  @@ "How can I improve my productivity while working remotely?" :> <<"H", "o", "w", " ", "c", "a", "n", " ", "I", " ", "i", "m", "p", "r", "o", "v", "e", " ", "m", "y", " ", "p", "r", "o", "d", "u", "c", "t", "i", "v", "i", "t", "y", " ", "w", "h", "i", "l", "e", " ", "w", "o", "r", "k", "i", "n", "g", " ", "r", "e", "m", "o", "t", "e", "l", "y", "?">>
  @@ "How do I debug this Python function?" :> <<"H", "o", "w", " ", "d", "o", " ", "I", " ", "d", "e", "b", "u", "g", " ", "t", "h", "i", "s", " ", "P", "y", "t", "h", "o", "n", " ", "f", "u", "n", "c", "t", "i", "o", "n", "?">>
  @@ "How do I implement a binary search algorithm in Python?" :> <<"H", "o", "w", " ", "d", "o", " ", "I", " ", "i", "m", "p", "l", "e", "m", "e", "n", "t", " ", "a", " ", "b", "i", "n", "a", "r", "y", " ", "s", "e", "a", "r", "c", "h", " ", "a", "l", "g", "o", "r", "i", "t", "h", "m", " ", "i", "n", " ", "P", "y", "t", "h", "o", "n", "?">>
  @@ "Plan team goals" :> <<"P", "l", "a", "n", " ", "t", "e", "a", "m", " ", "g", "o", "a", "l", "s">>
  @@ "What are the key principles of effective marketing strategy?" :> <<"W", "h", "a", "t", " ", "a", "r", "e", " ", "t", "h", "e", " ", "k", "e", "y", " ", "p", "r", "i", "n", "c", "i", "p", "l", "e", "s", " ", "o", "f", " ", "e", "f", "f", "e", "c", "t", "i", "v", "e", " ", "m", "a", "r", "k", "e", "t", "i", "n", "g", " ", "s", "t", "r", "a", "t", "e", "g", "y", "?">>
  @@ "academic" :> <<"a", "c", "a", "d", "e", "m", "i", "c">>
  @@ "advertising" :> <<"a", "d", "v", "e", "r", "t", "i", "s", "i", "n", "g">>
  @@ "ai" :> <<"a", "i">>
  @@ "algorithm" :> <<"a", "l", "g", "o", "r", "i", "t", "h", "m">>
  @@ "analytics" :> <<"a", "n", "a", "l", "y", "t", "i", "c", "s">>
  @@ "angular" :> <<"a", "n", "g", "u", "l", "a", "r">>
  @@ "api" :> <<"a", "p", "i">>
  @@ "artificial intelligence" :> <<"a", "r", "t", "i", "f", "i", "c", "i", "a", "l", " ", "i", "n", "t", "e", "l", "l", "i", "g", "e", "n", "c", "e">>
  @@ "automation" :> <<"a", "u", "t", "o", "m", "a", "t", "i", "o", "n">>
  @@ "balance" :> <<"b", "a", "l", "a", "n", "c", "e">>
  @@ "banking" :> <<"b", "a", "n", "k", "i", "n", "g">>
  @@ "binary" :> <<"b", "i", "n", "a", "r", "y">>
  @@ "brand" :> <<"b", "r", "a", "n", "d">>
  @@ "branding" :> <<"b", "r", "a", "n", "d", "i", "n", "g">>
  @@ "budget" :> <<"b", "u", "d", "g", "e", "t">>
  @@ "business" :> <<"b", "u", "s", "i", "n", "e", "s", "s">>
  @@ "c++" :> <<"c", "+", "+">>
  @@ "calendar" :> <<"c", "a", "l", "e", "n", "d", "a", "r">>
  @@ "campaign" :> <<"c", "a", "m", "p", "a", "i", "g", "n">>
  @@ "career" :> <<"c", "a", "r", "e", "e", "r">>
  @@ "certification" :> <<"c", "e", "r", "t", "i", "f", "i", "c", "a", "t", "i", "o", "n">>
  @@ "chatbot" :> <<"c", "h", "a", "t", "b", "o", "t">>
  @@ "code" :> <<"c", "o", "d", "e">>
  @@ "coding" :> <<"c", "o", "d", "i", "n", "g">>
  @@ "color" :> <<"c", "o", "l", "o", "r">>
  @@ "company" :> <<"c", "o", "m", "p", "a", "n", "y">>
  @@ "computer vision" :> <<"c", "o", "m", "p", "u", "t", "e", "r", " ", "v", "i", "s", "i", "o", "n">>
  @@ "content" :> <<"c", "o", "n", "t", "e", "n", "t">>
  @@ "conversion" :> <<"c", "o", "n", "v", "e", "r", "s", "i", "o", "n">>
  @@ "copywriting" :> <<"c", "o", "p", "y", "w", "r", "i", "t", "i", "n", "g">>
  @@ "course" :> <<"c", "o", "u", "r", "s", "e">>
  @@ "crypto" :> <<"c", "r", "y", "p", "t", "o">>
  @@ "css" :> <<"c", "s", "s">>
  @@ "cta" :> <<"c", "t", "a">>
  @@ "curriculum" :> <<"c", "u", "r", "r", "i", "c", "u", "l", "u", "m">>
  @@ "customer" :> <<"c", "u", "s", "t", "o", "m", "e", "r">>
  @@ "cv" :> <<"c", "v">>
  @@ "data science" :> <<"d", "a", "t", "a", " ", "s", "c", "i", "e", "n", "c", "e">>
  @@ "database" :> <<"d", "a", "t", "a", "b", "a", "s", "e">>
  @@ "debt" :> <<"d", "e", "b", "t">>
  @@ "debug" :> <<"d", "e", "b", "u", "g">>
  @@ "deep learning" :> <<"d", "e", "e", "p", " ", "l", "e", "a", "r", "n", "i", "n", "g">>
  @@ "degree" :> <<"d", "e", "g", "r", "e", "e">>
  @@ "design" :> <<"d", "e", "s", "i", "g", "n">>
  @@ "development" :> <<"d", "e", "v", "e", "l", "o", "p", "m", "e", "n", "t">>
  @@ "diet" :> <<"d", "i", "e", "t">>
  @@ "doctor" :> <<"d", "o", "c", "t", "o", "r">>
  @@ "economy" :> <<"e", "c", "o", "n", "o", "m", "y">>
  @@ "education" :> <<"e", "d", "u", "c", "a", "t", "i", "o", "n">>
  @@ "effective" :> <<"e", "f", "f", "e", "c", "t", "i", "v", "e">>
  @@ "efficiency" :> <<"e", "f", "f", "i", "c", "i", "e", "n", "c", "y">>
  @@ "email" :> <<"e", "m", "a", "i", "l">>
  @@ "engagement" :> <<"e", "n", "g", "a", "g", "e", "m", "e", "n", "t">>
  @@ "enterprise" :> <<"e", "n", "t", "e", "r", "p", "r", "i", "s", "e">>
  @@ "entertainment" :> <<"e", "n", "t", "e", "r", "t", "a", "i", "n", "m", "e", "n", "t">>
  @@ "exercise" :> <<"e", "x", "e", "r", "c", "i", "s", "e">>
  @@ "family" :> <<"f", "a", "m", "i", "l", "y">>
  @@ "figma" :> <<"f", "i", "g", "m", "a">>
  @@ "finance" :> <<"f", "i", "n", "a", "n", "c", "e">>
  @@ "financial" :> <<"f", "i", "n", "a", "n", "c", "i", "a", "l">>
  @@ "fitness" :> <<"f", "i", "t", "n", "e", "s", "s">>
  @@ "fix sql bug" :> <<"f", "i", "x", " ", "s", "q", "l", " ", "b", "u", "g">>
  @@ "focus" :> <<"f", "o", "c", "u", "s">>
  @@ "function" :> <<"f", "u", "n", "c", "t", "i", "o", "n">>
  @@ "funnel" :> <<"f", "u", "n", "n", "e", "l">>
  @@ "general" :> <<"g", "e", "n", "e", "r", "a", "l">>
  @@ "getting things done" :> <<"g", "e", "t", "t", "i", "n", "g", " ", "t", "h", "i", "n", "g", "s", " ", "d", "o", "n", "e">>
  @@ "git" :> <<"g", "i", "t">>
  @@ "github" :> <<"g", "i", "t", "h", "u", "b">>
  @@ "goals" :> <<"g", "o", "a", "l", "s">>
  @@ "gpt" :> <<"g", "p", "t">>
  @@ "graphic" :> <<"g", "r", "a", "p", "h", "i", "c">>
  @@ "growth" :> <<"g", "r", "o", "w", "t", "h">>
  @@ "habit" :> <<"h", "a", "b", "i", "t">>
  @@ "habits" :> <<"h", "a", "b", "i", "t", "s">>
  @@ "happiness" :> <<"h", "a", "p", "p", "i", "n", "e", "s", "s">>
  @@ "health" :> <<"h", "e", "a", "l", "t", "h">>
  @@ "healthcare" :> <<"h", "e", "a", "l", "t", "h", "c", "a", "r", "e">>
  @@ "hobbies" :> <<"h", "o", "b", "b", "i", "e", "s">>
  @@ "home" :> <<"h", "o", "m", "e">>
  @@ "how can i improve my productivity while working remotely?" :> <<"h", "o", "w", " ", "c", "a", "n", " ", "i", " ", "i", "m", "p", "r", "o", "v", "e", " ", "m", "y", " ", "p", "r", "o", "d", "u", "c", "t", "i", "v", "i", "t", "y", " ", "w", "h", "i", "l", "e", " ", "w", "o", "r", "k", "i", "n", "g", " ", "r", "e", "m", "o", "t", "e", "l", "y", "?">>
  @@ "how do i debug this python function?" :> <<"h", "o", "w", " ", "d", "o", " ", "i", " ", "d", "e", "b", "u", "g", " ", "t", "h", "i", "s", " ", "p", "y", "t", "h", "o", "n", " ", "f", "u", "n", "c", "t", "i", "o", "n", "?">>
  @@ "how do i implement a binary search algorithm in python?" :> <<"h", "o", "w", " ", "d", "o", " ", "i", " ", "i", "m", "p", "l", "e", "m", "e", "n", "t", " ", "a", " ", "b", "i", "n", "a", "r", "y", " ", "s", "e", "a", "r", "c", "h", " ", "a", "l", "g", "o", "r", "i", "t", "h", "m", " ", "i", "n", " ", "p", "y", "t", "h", "o", "n", "?">>
  @@ "html" :> <<"h", "t", "m", "l">>
  @@ "illustration" :> <<"i", "l", "l", "u", "s", "t", "r", "a", "t", "i", "o", "n">>
  @@ "imported" :> <<"i", "m", "p", "o", "r", "t", "e", "d">>
  @@ "implement" :> <<"i", "m", "p", "l", "e", "m", "e", "n", "t">>
  @@ "improve" :> <<"i", "m", "p", "r", "o", "v", "e">>
  @@ "influencer" :> <<"i", "n", "f", "l", "u", "e", "n", "c", "e", "r">>
  @@ "insurance" :> <<"i", "n", "s", "u", "r", "a", "n", "c", "e">>
  @@ "interface" :> <<"i", "n", "t", "e", "r", "f", "a", "c", "e">>
  @@ "interview" :> <<"i", "n", "t", "e", "r", "v", "i", "e", "w">>
  @@ "investment" :> <<"i", "n", "v", "e", "s", "t", "m", "e", "n", "t">>
  @@ "java" :> <<"j", "a", "v", "a">>
  @@ "javascript" :> <<"j", "a", "v", "a", "s", "c", "r", "i", "p", "t">>
  @@ "job" :> <<"j", "o", "b">>
  @@ "knowledge" :> <<"k", "n", "o", "w", "l", "e", "d", "g", "e">>
  @@ "kpi" :> <<"k", "p", "i">>
  @@ "landing page" :> <<"l", "a", "n", "d", "i", "n", "g", " ", "p", "a", "g", "e">>
  @@ "layout" :> <<"l", "a", "y", "o", "u", "t">>
  @@ "leadership" :> <<"l", "e", "a", "d", "e", "r", "s", "h", "i", "p">>
  @@ "learning" :> <<"l", "e", "a", "r", "n", "i", "n", "g">>
  @@ "leisure" :> <<"l", "e", "i", "s", "u", "r", "e">>
  @@ "life" :> <<"l", "i", "f", "e">>
  @@ "lifestyle" :> <<"l", "i", "f", "e", "s", "t", "y", "l", "e">>
  @@ "linkedin" :> <<"l", "i", "n", "k", "e", "d", "i", "n">>
  @@ "loan" :> <<"l", "o", "a", "n">>
  @@ "logo" :> <<"l", "o", "g", "o">>
  @@ "machine learning" :> <<"m", "a", "c", "h", "i", "n", "e", " ", "l", "e", "a", "r", "n", "i", "n", "g">>
  @@ "management" :> <<"m", "a", "n", "a", "g", "e", "m", "e", "n", "t">>
  @@ "market" :> <<"m", "a", "r", "k", "e", "t">>
  @@ "marketing" :> <<"m", "a", "r", "k", "e", "t", "i", "n", "g">>
  @@ "medical" :> <<"m", "e", "d", "i", "c", "a", "l">>
  @@ "medicine" :> <<"m", "e", "d", "i", "c", "i", "n", "e">>
  @@ "meditation" :> <<"m", "e", "d", "i", "t", "a", "t", "i", "o", "n">>
  @@ "mental health" :> <<"m", "e", "n", "t", "a", "l", " ", "h", "e", "a", "l", "t", "h">>
  @@ "metrics" :> <<"m", "e", "t", "r", "i", "c", "s">>
  @@ "model" :> <<"m", "o", "d", "e", "l">>
  @@ "money" :> <<"m", "o", "n", "e", "y">>
  @@ "mooc" :> <<"m", "o", "o", "c">>
  @@ "motivation" :> <<"m", "o", "t", "i", "v", "a", "t", "i", "o", "n">>
  @@ "networking" :> <<"n", "e", "t", "w", "o", "r", "k", "i", "n", "g">>
  @@ "neural" :> <<"n", "e", "u", "r", "a", "l">>
  @@ "nlp" :> <<"n", "l", "p">>
  @@ "nodejs" :> <<"n", "o", "d", "e", "j", "s">>
  @@ "nutrition" :> <<"n", "u", "t", "r", "i", "t", "i", "o", "n">>
  @@ "online learning" :> <<"o", "n", "l", "i", "n", "e", " ", "l", "e", "a", "r", "n", "i", "n", "g">>
  @@ "operations" :> <<"o", "p", "e", "r", "a", "t", "i", "o", "n", "s">>
  @@ "optimization" :> <<"o", "p", "t", "i", "m", "i", "z", "a", "t", "i", "o", "n">>
  @@ "organization" :> <<"o", "r", "g", "a", "n", "i", "z", "a", "t", "i", "o", "n">>
  @@ "personal" :> <<"p", "e", "r", "s", "o", "n", "a", "l">>
  @@ "photoshop" :> <<"p", "h", "o", "t", "o", "s", "h", "o", "p">>
  @@ "php" :> <<"p", "h", "p">>
  @@ "plan" :> <<"p", "l", "a", "n">>
  @@ "plan team goals" :> <<"p", "l", "a", "n", " ", "t", "e", "a", "m", " ", "g", "o", "a", "l", "s">>
  @@ "planning" :> <<"p", "l", "a", "n", "n", "i", "n", "g">>
  @@ "pomodoro" :> <<"p", "o", "m", "o", "d", "o", "r", "o">>
  @@ "portfolio" :> <<"p", "o", "r", "t", "f", "o", "l", "i", "o">>
  @@ "principles" :> <<"p", "r", "i", "n", "c", "i", "p", "l", "e", "s">>
  @@ "productivity" :> <<"p", "r", "o", "d", "u", "c", "t", "i", "v", "i", "t", "y">>
  @@ "professional" :> <<"p", "r", "o", "f", "e", "s", "s", "i", "o", "n", "a", "l">>
  @@ "profit" :> <<"p", "r", "o", "f", "i", "t">>
  @@ "programming" :> <<"p", "r", "o", "g", "r", "a", "m", "m", "i", "n", "g">>
  @@ "project" :> <<"p", "r", "o", "j", "e", "c", "t">>
  @@ "promotion" :> <<"p", "r", "o", "m", "o", "t", "i", "o", "n">>
  @@ "prototype" :> <<"p", "r", "o", "t", "o", "t", "y", "p", "e">>
  @@ "python" :> <<"p", "y", "t", "h", "o", "n">>
  @@ "pytorch" :> <<"p", "y", "t", "o", "r", "c", "h">>
  @@ "react" :> <<"r", "e", "a", "c", "t">>
  @@ "relationships" :> <<"r", "e", "l", "a", "t", "i", "o", "n", "s", "h", "i", "p", "s">>
  @@ "remotely" :> <<"r", "e", "m", "o", "t", "e", "l", "y">>
  @@ "research" :> <<"r", "e", "s", "e", "a", "r", "c", "h">>
  @@ "resume" :> <<"r", "e", "s", "u", "m", "e">>
  @@ "retirement" :> <<"r", "e", "t", "i", "r", "e", "m", "e", "n", "t">>
  @@ "revenue" :> <<"r", "e", "v", "e", "n", "u", "e">>
  @@ "robotics" :> <<"r", "o", "b", "o", "t", "i", "c", "s">>
  @@ "roi" :> <<"r", "o", "i">>
  @@ "routine" :> <<"r", "o", "u", "t", "i", "n", "e">>
  @@ "salary" :> <<"s", "a", "l", "a", "r", "y">>
  @@ "savings" :> <<"s", "a", "v", "i", "n", "g", "s">>
  @@ "search" :> <<"s", "e", "a", "r", "c", "h">>
  @@ "self-improvement" :> <<"s", "e", "l", "f", "-", "i", "m", "p", "r", "o", "v", "e", "m", "e", "n", "t">>
  @@ "seo" :> <<"s", "e", "o">>
  @@ "skill" :> <<"s", "k", "i", "l", "l">>
  @@ "sleep" :> <<"s", "l", "e", "e", "p">>
  @@ "social media" :> <<"s", "o", "c", "i", "a", "l", " ", "m", "e", "d", "i", "a">>
  @@ "sql" :> <<"s", "q", "l">>
  @@ "startup" :> <<"s", "t", "a", "r", "t", "u", "p">>
  @@ "stock" :> <<"s", "t", "o", "c", "k">>
  @@ "strategy" :> <<"s", "t", "r", "a", "t", "e", "g", "y">>
  @@ "stress" :> <<"s", "t", "r", "e", "s", "s">>
  @@ "study" :> <<"s", "t", "u", "d", "y">>
  @@ "task" :> <<"t", "a", "s", "k">>
  @@ "tax" :> <<"t", "a", "x">>
  @@ "teach" :> <<"t", "e", "a", "c", "h">>
  @@ "team" :> <<"t", "e", "a", "m">>
  @@ "tensorflow" :> <<"t", "e", "n", "s", "o", "r", "f", "l", "o", "w">>
  @@ "this" :> <<"t", "h", "i", "s">>
  @@ "therapy" :> <<"t", "h", "e", "r", "a", "p", "y">>
  @@ "time management" :> <<"t", "i", "m", "e", " ", "m", "a", "n", "a", "g", "e", "m", "e", "n", "t">>
  @@ "todo" :> <<"t", "o", "d", "o">>
  @@ "tools" :> <<"t", "o", "o", "l", "s">>
  @@ "trading" :> <<"t", "r", "a", "d", "i", "n", "g">>
  @@ "traffic" :> <<"t", "r", "a", "f", "f", "i", "c">>
  @@ "training" :> <<"t", "r", "a", "i", "n", "i", "n", "g">>
  @@ "travel" :> <<"t", "r", "a", "v", "e", "l">>
  @@ "tutorial" :> <<"t", "u", "t", "o", "r", "i", "a", "l">>
  @@ "typescript" :> <<"t", "y", "p", "e", "s", "c", "r", "i", "p", "t">>
  @@ "typography" :> <<"t", "y", "p", "o", "g", "r", "a", "p", "h", "y">>
  @@ "ui" :> <<"u", "i">>
  @@ "university" :> <<"u", "n", "i", "v", "e", "r", "s", "i", "t", "y">>
  @@ "usability" :> <<"u", "s", "a", "b", "i", "l", "i", "t", "y">>
  @@ "user experience" :> <<"u", "s", "e", "r", " ", "e", "x", "p", "e", "r", "i", "e", "n", "c", "e">>
  @@ "ux" :> <<"u", "x">>
  @@ "visual" :> <<"v", "i", "s", "u", "a", "l">>
  @@ "vue" :> <<"v", "u", "e">>
  @@ "wellbeing" :> <<"w", "e", "l", "l", "b", "e", "i", "n", "g">>
  @@ "wellness" :> <<"w", "e", "l", "l", "n", "e", "s", "s">>
  @@ "what" :> <<"w", "h", "a", "t">>
  @@ "what are the key principles of effective marketing strategy?" :> <<"w", "h", "a", "t", " ", "a", "r", "e", " ", "t", "h", "e", " ", "k", "e", "y", " ", "p", "r", "i", "n", "c", "i", "p", "l", "e", "s", " ", "o", "f", " ", "e", "f", "f", "e", "c", "t", "i", "v", "e", " ", "m", "a", "r", "k", "e", "t", "i", "n", "g", " ", "s", "t", "r", "a", "t", "e", "g", "y", "?">>
  @@ "while" :> <<"w", "h", "i", "l", "e">>
  @@ "wireframe" :> <<"w", "i", "r", "e", "f", "r", "a", "m", "e">>
  @@ "workflow" :> <<"w", "o", "r", "k", "f", "l", "o", "w">>
  @@ "working" :> <<"w", "o", "r", "k", "i", "n", "g">>
  @@ "workplace" :> <<"w", "o", "r", "k", "p", "l", "a", "c", "e">>
  @@ "yoga" :> <<"y", "o", "g", "a">>

LowerCase ==
  "A" :> "a" @@ "B" :> "b" @@ "C" :> "c" @@ "D" :> "d" @@ "E" :> "e" @@ "F" :> "f" @@ "G" :> "g"
  @@ "H" :> "h" @@ "I" :> "i" @@ "J" :> "j" @@ "K" :> "k" @@ "L" :> "l" @@ "M" :> "m" @@ "N" :> "n"
  @@ "O" :> "o" @@ "P" :> "p" @@ "Q" :> "q" @@ "R" :> "r" @@ "S" :> "s" @@ "T" :> "t" @@ "U" :> "u"
  @@ "V" :> "v" @@ "W" :> "w" @@ "X" :> "x" @@ "Y" :> "y" @@ "Z" :> "z"

WordChars ==
  (DOMAIN LowerCase) \cup {LowerCase[c] : c \in DOMAIN LowerCase}
  \cup {"0", "1", "2", "3", "4", "5", "6", "7", "8", "9", "_"}

WhiteSpace == {" ", "\t", "\n", "\r"}

\* the string with the given spelling
Unspell(cs) == CHOOSE s \in DOMAIN Spell : Spell[s] = cs

toLowerCase(cs) ==
  [i \in 1..Len(cs) |-> IF cs[i] \in DOMAIN LowerCase THEN LowerCase[cs[i]] ELSE cs[i]]

\* text.includes(part), on spellings
includes(text, part) ==
  \E i \in 0..(Len(text) - Len(part)) : SubSeq(text, i + 1, i + Len(part)) = part

RECURSIVE trimStart(_)
trimStart(cs) == IF cs # <<>> /\ Head(cs) \in WhiteSpace THEN trimStart(Tail(cs)) ELSE cs

RECURSIVE trimEnd(_)
trimEnd(cs) ==
  IF cs # <<>> /\ cs[Len(cs)] \in WhiteSpace THEN trimEnd(SubSeq(cs, 1, Len(cs) - 1)) ELSE cs

\* question.trim()
trimmed(s) == Unspell(trimEnd(trimStart(Spell[s])))

\* text.split(/\s+/): the pieces between runs of white space (an empty piece at an end
\* that is white space)
RECURSIVE split(_, _)
split(cs, piece) ==
  IF cs = <<>> THEN <<piece>>
  ELSE IF Head(cs) \in WhiteSpace
       THEN <<piece>> \o split(trimStart(cs), <<>>)
       ELSE split(Tail(cs), Append(piece, Head(cs)))

(* ----- the keyword table and the text helpers of the store ----- *)
categoryKeywords ==
  <<<<"coding", <<"code", "programming", "javascript", "python", "react", "html", "css", "function", "api", "database", "algorithm", "debug", "git", "nodejs", "typescript", "vue", "angular", "php", "java", "c++", "sql", "github">>>>,
     <<"business", <<"business", "strategy", "company", "startup", "management", "leadership", "enterprise", "profit", "revenue", "growth", "operations", "team", "project", "planning", "goals", "kpi", "metrics", "roi", "budget">>>>,
     <<"marketing", <<"marketing", "advertising", "brand", "customer", "social media", "campaign", "content", "seo", "conversion", "funnel", "analytics", "engagement", "influencer", "email", "copywriting", "cta", "landing page", "traffic">>>>,
     <<"design", <<"design", "ui", "ux", "layout", "visual", "color", "typography", "interface", "wireframe", "prototype", "figma", "photoshop", "branding", "logo", "illustration", "graphic", "user experience", "usability">>>>,
     <<"productivity", <<"productivity", "time management", "organization", "efficiency", "workflow", "task", "planning", "goals", "focus", "habits", "automation", "tools", "calendar", "todo", "getting things done", "pomodoro", "optimization">>>>,
     <<"ai", <<"ai", "artificial intelligence", "machine learning", "neural", "model", "gpt", "chatbot", "automation", "nlp", "deep learning", "tensorflow", "pytorch", "data science", "algorithm", "computer vision", "robotics">>>>,
     <<"career", <<"career", "job", "interview", "resume", "professional", "skill", "workplace", "promotion", "networking", "linkedin", "salary", "development", "training", "certification", "portfolio", "cv">>>>,
     <<"education", <<"education", "learning", "study", "teach", "course", "training", "knowledge", "university", "research", "academic", "curriculum", "online learning", "mooc", "tutorial", "certification", "degree">>>>,
     <<"finance", <<"finance", "money", "investment", "budget", "financial", "economy", "market", "trading", "crypto", "stock", "portfolio", "banking", "loan", "debt", "savings", "retirement", "tax", "insurance">>>>,
     <<"health", <<"health", "wellness", "fitness", "medical", "mental health", "exercise", "nutrition", "diet", "sleep", "stress", "meditation", "yoga", "therapy", "doctor", "medicine", "healthcare", "wellbeing">>>>,
     <<"lifestyle", <<"lifestyle", "life", "personal", "habit", "routine", "balance", "self-improvement", "motivation", "happiness", "relationships", "family", "home", "travel", "hobbies", "entertainment", "leisure">>>>>>

DefaultCategory == "general"

\* keywords.filter(keyword => lowerPrompt.includes(keyword.toLowerCase()))
matchingKeywords(lowerPrompt, keywords) ==
  SelectSeq(keywords, LAMBDA keyword : includes(lowerPrompt, toLowerCase(Spell[keyword])))

\* the for loop of categorizePrompt with a tie going to the later category
RECURSIVE categorizeFromLastLeader(_, _, _, _)
categorizeFromLastLeader(lowerPrompt, i, maxMatches, bestCategory) ==
  IF i > Len(categoryKeywords) THEN bestCategory
  ELSE LET matches == Len(matchingKeywords(lowerPrompt, categoryKeywords[i][2]))
       IN IF matches >= maxMatches /\ matches > 0
          THEN categorizeFromLastLeader(lowerPrompt, i + 1, matches, categoryKeywords[i][1])
          ELSE categorizeFromLastLeader(lowerPrompt, i + 1, maxMatches, bestCategory)

\* the for loop of categorizePrompt from entry i on, with the leader so far
RECURSIVE categorizeFrom(_, _, _, _)
categorizeFrom(lowerPrompt, i, maxMatches, bestCategory) ==
  IF i > Len(categoryKeywords) THEN bestCategory
  ELSE LET matches == Len(matchingKeywords(lowerPrompt, categoryKeywords[i][2]))
       IN IF matches > maxMatches
          THEN categorizeFrom(lowerPrompt, i + 1, matches, categoryKeywords[i][1])
          ELSE categorizeFrom(lowerPrompt, i + 1, maxMatches, bestCategory)

\* the texts the model passes to categorizePrompt, generateTags and trim
Prompts ==
  {"Fix SQL bug", "Plan team goals", " ", "goals", "How do I debug this Python function?",
   "How do I implement a binary search algorithm in Python?",
   "What are the key principles of effective marketing strategy?",
   "How can I improve my productivity while working remotely?"}

\* categorizePrompt, tabulated over Prompts so that the scan runs once for each text
categorized ==
  [prompt \in Prompts |-> categorizeFrom(toLowerCase(Spell[prompt]), 1, 0, DefaultCategory)]

categorizePrompt(prompt) == categorized[prompt]

\* this.categoryKeywords[category] || []
keywordsOf(category) ==
  IF \E i \in 1..Len(categoryKeywords) : categoryKeywords[i][1] = category
  THEN categoryKeywords[CHOOSE i \in 1..Len(categoryKeywords) : categoryKeywords[i][1] = category][2]
  ELSE <<>>

\* prompt.toLowerCase().replace(/[^\w\s]/g, ' ')
stripNonWord(cs) ==
  [i \in 1..Len(cs) |-> IF cs[i] \in WordChars \cup WhiteSpace THEN cs[i] ELSE " "]

tagsFor(prompt, category) ==
  LET lower == toLowerCase(Spell[prompt])
      pieces == split(stripNonWord(lower), <<>>)
      long == SelectSeq(pieces, LAMBDA word : Len(word) > 3)
      words == [i \in 1..Len(Slice(long, 5)) |-> Unspell(long[i])]
      relevantKeywords ==
        Slice(SelectSeq(keywordsOf(category), LAMBDA keyword : includes(lower, Spell[keyword])), 3)
  IN Dedupe(<<category>> \o relevantKeywords \o words)

Categories == {categoryKeywords[i][1] : i \in 1..Len(categoryKeywords)} \cup {DefaultCategory}

\* generateTags, tabulated over Prompts and the categories
generatedTags == [prompt \in Prompts |-> [category \in Categories |-> tagsFor(prompt, category)]]

generateTags(prompt, category) == generatedTags[prompt][category]

\* trim, tabulated over Prompts
trims == [prompt \in Prompts |-> trimmed(prompt)]

trim(prompt) == trims[prompt]

\* the answer templates, each named by its key
TemplateKeys == {"coding", "business", "marketing", "design"}

generateAnswer(question, category) ==
  IF category \in TemplateKeys THEN "template:" \o category ELSE "template:default"

(* ----- utils.js: ids, validation, serialization, storage ----- *)
QaIds(qas) == {qas[i].id : i \in 1..Len(qas)}

StorageKey == "qa_synthesizer_data"

\* JSON.stringify and JSON.parse: a text either holds a value or does not parse
JSONstringify(value) == [json |-> value]
Parses(text) == Has(text, "json")
JSONparse(text) == text.json

\* a JavaScript value that is no object (null, a number) is [primitive |-> its text]
IsObject(value) == ~Has(value, "primitive")

\* localStorage is the set of its items, each [key, text]
HasItem(storage, key) == \E item \in storage : item.key = key
getItem(storage, key) == (CHOOSE item \in storage : item.key = key).text
setItem(storage, key, text) ==
  {item \in storage : item.key # key} \cup {[key |-> key, text |-> text]}

\* null, the one value the model has whose properties cannot be read
IsNull(value) == Has(value, "primitive") /\ value.primitive = "null"

\* the ids the backend's document holds
StoredIds(storage) ==
  IF HasItem(storage, StorageKey) /\ Parses(getItem(storage, StorageKey))
     /\ IsObject(JSONparse(getItem(storage, StorageKey)))
     /\ Has(JSONparse(getItem(storage, StorageKey)), "qas")
  THEN QaIds(SelectSeq(JSONparse(getItem(storage, StorageKey)).qas, IsObject))
  ELSE {}

\* generateId: an id that nothing holds yet
generateId(used) == CHOOSE id \in 1..(Cardinality(used) + 1) : id \notin used

\* the errors validateQAData pushes for one entry of qas
qaErrors(qa) ==
  (IF qa.id = 0 THEN <<"missing id">> ELSE <<>>)
  \o (IF qa.question = "" THEN <<"question must be a non-empty string">> ELSE <<>>)
  \o (IF qa.answer = "" THEN <<"answer must be a non-empty string">> ELSE <<>>)
  \o (IF qa.category = "" THEN <<"category must be a non-empty string">> ELSE <<>>)
  \o (IF qa.rating # 0 /\ (qa.rating < MinRating \/ qa.rating > MaxRating)
      THEN <<"rating must be a number between 0 and 5">> ELSE <<>>)

RECURSIVE qasErrors(_)
qasErrors(qas) == IF qas = <<>> THEN <<>> ELSE qaErrors(Head(qas)) \o qasErrors(Tail(qas))

\* validateQAData(data).errors; isValid is errors.length === 0
validateQAData(value) ==
  IF ~IsObject(value) THEN <<"Data must be an object">>
  ELSE IF ~Has(value, "qas") THEN <<"qas must be an array">>
  ELSE qasErrors(value.qas)

\* validateQAData throws instead of returning: the forEach reads qa.id of a null entry
validateThrows(value) ==
  /\ IsObject(value)
  /\ Has(value, "qas")
  /\ \E i \in 1..Len(value.qas) : IsNull(value.qas[i])

\* validation.isValid with the checks of the entries of qas left out
isValidUnchecked(value) == ~validateThrows(value) /\ IsObject(value) /\ Has(value, "qas")

isValid(value) == ~validateThrows(value) /\ validateQAData(value) = <<>>

\* Storage.set: true and the value written, or false and nothing written
StorageSet(storage, value, success) ==
  IF success THEN setItem(storage, StorageKey, JSONstringify(value)) ELSE storage

(* ----- the store: QADatabase ----- *)
ProtectedFolders == <<"all", "favorites", "archive", "default">>

DefaultCategories ==
  <<"general", "coding", "business", "marketing", "design", "productivity", "ai", "career",
    "education", "finance", "health", "lifestyle">>

DefaultSettings ==
  [currentFolder |-> "all", currentCategory |-> "", sortBy |-> "newest", searchTerm |-> "",
   viewMode |-> "grid"]

\* this.data as the constructor sets it
DefaultData(t) ==
  [qas |-> <<>>, folders |-> ProtectedFolders, categories |-> DefaultCategories,
   settings |-> DefaultSettings,
   metadata |-> [version |-> "2.0", createdAt |-> t, lastModified |-> t]]

\* a call's outcome: the store after it and what the caller gets
Return(db, value) == [db |-> db, threw |-> FALSE, value |-> value]
Throw(db, error) == [db |-> db, threw |-> TRUE, value |-> error]

\* on(event, callback): a Set keeps one entry per callback, in the order they were added
on(db, event, callback) ==
  IF Includes(db.observers, [event |-> event, callback |-> callback]) THEN db
  ELSE [db EXCEPT !.observers = Append(@, [event |-> event, callback |-> callback])]

\* off(event, callback)
off(db, event, callback) ==
  [db EXCEPT !.observers =
     SelectSeq(@, LAMBDA entry : entry # [event |-> event, callback |-> callback])]

\* the callbacks that throw when they are called
ThrowingCallbacks == {"cbThrows"}

\* the calls the forEach of emit makes: the event's callbacks in order, each inside try/catch;
\* every callback is handed what the store is at that moment
deliveries(db, event, payload) ==
  LET subscribed == SelectSeq(db.observers, LAMBDA entry : entry.event = event)
  IN [i \in 1..Len(subscribed) |->
        [callback |-> subscribed[i].callback, event |-> event, payload |-> payload,
         threw |-> subscribed[i].callback \in ThrowingCallbacks]]

\* emit with a forEach that lets the first throw of a callback end the delivery
emitUncaught(db, event, payload) ==
  LET calls == deliveries(db, event, payload)
      upTo == IF \E i \in 1..Len(calls) : calls[i].threw
              THEN CHOOSE i \in 1..Len(calls) :
                     calls[i].threw /\ \A j \in 1..(i - 1) : ~calls[j].threw
              ELSE Len(calls)
  IN [db EXCEPT !.emitted = Append(@, [event |-> event, payload |-> payload,
                                       isDirty |-> db.isDirty, data |-> db.data]),
                !.invoked = @ \o SubSeq(calls, 1, upTo)]

\* emit; each entry of emitted keeps what a callback called at that moment finds in the store:
\* the dirty flag and the document
emit(db, event, payload) ==
  [db EXCEPT !.emitted = Append(@, [event |-> event, payload |-> payload,
                                    isDirty |-> db.isDirty, data |-> db.data]),
             !.invoked = @ \o deliveries(db, event, payload)]

\* markDirty without clearTimeout: the timer set before stays pending
markDirtyNoClear(db) ==
  [db EXCEPT !.isDirty = TRUE, !.autoSaveTimeout = @ \cup {now + DebounceDelay}]

markDirty(db) ==
  [db EXCEPT !.isDirty = TRUE, !.autoSaveTimeout = {now + DebounceDelay}]

\* setupAutoSave: setInterval(autoSave, 30000); the beforeunload listener goes with it
setupAutoSave(db) == [db EXCEPT !.autoSaveInterval = {now + AutoSaveInterval}]

\* Math.floor(Math.random() * n), the draw given in thousandths
randomBelow(draw, n) == (draw * n) \div 1000

\* saveData with the dirty flag cleared before the write is tried
saveDataClearsFirst(db, force, success) ==
  IF ~db.isDirty /\ ~force THEN Return(db, TRUE)
  ELSE LET stamped == [db EXCEPT !.data.metadata.lastModified = now, !.isDirty = FALSE]
       IN IF success
          THEN Return(emit([stamped EXCEPT !.localStorage = StorageSet(@, stamped.data, TRUE)],
                           "saved", "this.data"), TRUE)
          ELSE Return(emit(stamped, "saveError", "Failed to save to localStorage"), FALSE)

saveData(db, force, success) ==
  IF ~db.isDirty /\ ~force THEN Return(db, TRUE)
  ELSE LET stamped == [db EXCEPT !.data.metadata.lastModified = now]
       IN IF success
          THEN Return(emit([stamped EXCEPT
                              !.localStorage = StorageSet(@, stamped.data, TRUE),
                              !.isDirty = FALSE],
                           "saved", "this.data"), TRUE)
          ELSE Return(emit(stamped, "saveError", "Failed to save to localStorage"), FALSE)

\* storage.get gives null for no item and for an item that does not parse
loadData(db) ==
  IF HasItem(db.localStorage, StorageKey) /\ Parses(getItem(db.localStorage, StorageKey))
  THEN LET savedData == JSONparse(getItem(db.localStorage, StorageKey))
       IN IF validateThrows(savedData)
          THEN Throw(db, "TypeError: Cannot read properties of null (reading 'id')")
          ELSE IF isValid(savedData)
          THEN Return([db EXCEPT !.data = [ObjectSpread(db.data, savedData) EXCEPT
                                             !.metadata.lastModified = now]],
                      "this.data")
          ELSE Return(db, "this.data")
  ELSE Return(db, "this.data")

SampleQAs ==
  <<[question |-> "How do I implement a binary search algorithm in Python?",
     answer |-> "sample:binary search", category |-> "coding", folder |-> "default"],
    [question |-> "What are the key principles of effective marketing strategy?",
     answer |-> "sample:marketing strategy", category |-> "marketing", folder |-> "favorites"],
    [question |-> "How can I improve my productivity while working remotely?",
     answer |-> "sample:remote productivity", category |-> "productivity", folder |-> "default"]>>

\* the forEach of addSampleData from sample i on; random[k] is the k-th Math.random()
RECURSIVE pushSamples(_, _, _)
pushSamples(db, i, random) ==
  IF i > Len(SampleQAs) THEN db
  ELSE LET sample == SampleQAs[i]
           index == i - 1
           qa == [id |-> generateId(QaIds(db.data.qas) \cup StoredIds(db.localStorage)),
                  question |-> sample.question,
                  answer |-> sample.answer,
                  category |-> sample.category,
                  tags |-> generateTags(sample.question, sample.category),
                  folder |-> sample.folder,
                  rating |-> randomBelow(random[3 * index + 1], 3) + 3,
                  views |-> randomBelow(random[3 * index + 2], 50) + 10,
                  score |-> randomBelow(random[3 * index + 3], 3) + 7,
                  timestamp |-> now - index * DayMs,
                  createdAt |-> now - index * DayMs,
                  updatedAt |-> now - index * DayMs]
       IN pushSamples([db EXCEPT !.data.qas = Append(@, qa)], i + 1, random)

addSampleData(db, random) ==
  emit(markDirty(pushSamples(db, 1, random)), "sampleDataAdded", "this.data.qas")

\* init with a catch block that logs the error and does no more
initNoFallback(db, random) ==
  LET loaded == loadData(db)
      installed == setupAutoSave(loaded.db)
      seeded == IF installed.data.qas = <<>> THEN addSampleData(installed, random)
                ELSE installed
  IN IF loaded.threw THEN loaded.db
     ELSE emit(seeded, "initialized", "this.data")

\* init, run by the constructor: load, set up the timers, seed an empty document; when the
\* load throws the catch seeds the document and nothing else of the try block has run
init(db, random) ==
  LET loaded == loadData(db)
      installed == setupAutoSave(loaded.db)
      seeded == IF installed.data.qas = <<>> THEN addSampleData(installed, random)
                ELSE installed
  IN IF loaded.threw THEN addSampleData(loaded.db, random)
     ELSE emit(seeded, "initialized", "this.data")

\* qas.findIndex(qa => qa.id === id), counted from 1; 0 when no record has the id
findIndex(qas, id) ==
  IF id \in QaIds(qas)
  THEN CHOOSE i \in 1..Len(qas) : qas[i].id = id /\ \A j \in 1..(i - 1) : qas[j].id # id
  ELSE 0

\* option || fallback, for a string-valued and for a number-valued option
OrString(options, key, fallback) ==
  IF Has(options, key) /\ options[key] # "" THEN options[key] ELSE fallback
OrNumber(options, key, fallback) ==
  IF Has(options, key) /\ options[key] # 0 THEN options[key] ELSE fallback

addPrompt(db, question, answer, options, draw) ==
  LET category == OrString(options, "category", categorizePrompt(question))
      tags == IF Has(options, "tags") THEN options.tags ELSE generateTags(question, category)
      generatedAnswer == IF answer # "" THEN answer ELSE generateAnswer(question, category)
      newQA == [id |-> generateId(QaIds(db.data.qas) \cup StoredIds(db.localStorage)),
                question |-> trim(question),
                answer |-> generatedAnswer,
                category |-> category,
                tags |-> Dedupe(tags),
                folder |-> OrString(options, "folder", "default"),
                rating |-> OrNumber(options, "rating", 0),
                views |-> 0,
                score |-> OrNumber(options, "score", randomBelow(draw, 3) + 7),
                timestamp |-> now,
                createdAt |-> now,
                updatedAt |-> now]
      added == [db EXCEPT !.data.qas = <<newQA>> \o @]
  IN Return(emit(markDirty(added), "promptAdded", newQA), newQA)

\* updatePrompt marking the document dirty before it looks the id up
updatePromptMarksFirst(db, id, updates) ==
  LET index == findIndex(db.data.qas, id)
      existingQA == db.data.qas[index]
      updatedQA == [ObjectSpread(existingQA, updates) EXCEPT !.updatedAt = now]
      updated == [db EXCEPT !.data.qas[index] = updatedQA]
  IN IF index = 0 THEN Throw(markDirty(db), "Prompt not found")
     ELSE Return(emit(markDirty(updated), "promptUpdated", updatedQA), updatedQA)

updatePrompt(db, id, updates) ==
  LET index == findIndex(db.data.qas, id)
      existingQA == db.data.qas[index]
      merged == [ObjectSpread(existingQA, updates) EXCEPT !.updatedAt = now]
      category == OrString(updates, "category", categorizePrompt(updates.question))
      updatedQA ==
        IF Has(updates, "question") /\ updates.question # ""
           /\ updates.question # existingQA.question
        THEN [merged EXCEPT
                !.category = category,
                !.tags = IF Has(updates, "tags") THEN updates.tags
                         ELSE generateTags(updates.question, category)]
        ELSE merged
      updated == [db EXCEPT !.data.qas[index] = updatedQA]
  IN IF index = 0 THEN Throw(db, "Prompt not found")
     ELSE Return(emit(markDirty(updated), "promptUpdated", updatedQA), updatedQA)

\* deletePrompt announcing the deletion before the record is spliced out
deletePromptEmitsFirst(db, id) ==
  LET index == findIndex(db.data.qas, id)
      deletedQA == db.data.qas[index]
      announced == emit(db, "promptDeleted", deletedQA)
  IN IF index = 0 THEN Throw(db, "Prompt not found")
     ELSE Return(markDirty([announced EXCEPT !.data.qas = RemoveAt(@, index)]), deletedQA)

deletePrompt(db, id) ==
  LET index == findIndex(db.data.qas, id)
      deletedQA == db.data.qas[index]
      spliced == [db EXCEPT !.data.qas = RemoveAt(@, index)]
  IN IF index = 0 THEN Throw(db, "Prompt not found")
     ELSE Return(emit(markDirty(spliced), "promptDeleted", deletedQA), deletedQA)

\* a.question.localeCompare(b.question), tabulated: the questions of the model in the order
\* of the collation
Collation ==
  <<"", " ", "Fix SQL bug", "goals",
    "How can I improve my productivity while working remotely?",
    "How do I debug this Python function?",
    "How do I implement a binary search algorithm in Python?", "Plan team goals",
    "What are the key principles of effective marketing strategy?">>

localeCompare(a, b) == IndexOf(Collation, a) - IndexOf(Collation, b)

\* the comparator with mostViewed counting upwards
compareFewestViews(a, b, sortBy) ==
  CASE sortBy = "newest" -> b.timestamp - a.timestamp
    [] sortBy = "oldest" -> a.timestamp - b.timestamp
    [] sortBy = "mostViewed" -> a.views - b.views
    [] sortBy = "rating" -> b.rating - a.rating
    [] sortBy = "alphabetical" -> localeCompare(a.question, b.question)
    [] OTHER -> 0

\* the comparator getPrompts hands to sort
compare(a, b, sortBy) ==
  CASE sortBy = "newest" -> b.timestamp - a.timestamp
    [] sortBy = "oldest" -> a.timestamp - b.timestamp
    [] sortBy = "mostViewed" -> b.views - a.views
    [] sortBy = "rating" -> b.rating - a.rating
    [] sortBy = "alphabetical" -> localeCompare(a.question, b.question)
    [] OTHER -> 0

\* Array.prototype.sort, a stable sort: an element goes after the last one that the
\* comparator does not put behind it
RECURSIVE sort(_, _)
sort(seq, sortBy) ==
  IF seq = <<>> THEN <<>>
  ELSE LET front == sort(SubSeq(seq, 1, Len(seq) - 1), sortBy)
           last == seq[Len(seq)]
           ahead == {i \in 1..Len(front) : compare(front[i], last, sortBy) <= 0}
           place == IF ahead = {} THEN 0 ELSE CHOOSE i \in ahead : \A j \in ahead : j <= i
       IN SubSeq(front, 1, place) \o <<last>> \o SubSeq(front, place + 1, Len(front))

\* the search filter: the term in the question, in the answer or in one of the tags
matchesSearch(qa, searchTerm) ==
  \/ includes(toLowerCase(Spell[qa.question]), searchTerm)
  \/ includes(toLowerCase(Spell[qa.answer]), searchTerm)
  \/ \E i \in 1..Len(qa.tags) : includes(toLowerCase(Spell[qa.tags[i]]), searchTerm)

\* getPrompts with a dateRange that leaves out the record at its end
getPromptsOpenRange(db, filters) ==
  LET copy == db.data.qas
      byFolder == IF Has(filters, "folder") /\ filters.folder # "" /\ filters.folder # "all"
                  THEN SelectSeq(copy, LAMBDA qa : qa.folder = filters.folder) ELSE copy
      byCategory == IF Has(filters, "category") /\ filters.category # ""
                    THEN SelectSeq(byFolder, LAMBDA qa : qa.category = filters.category)
                    ELSE byFolder
      byRating == IF Has(filters, "rating") /\ filters.rating # 0
                  THEN SelectSeq(byCategory, LAMBDA qa : qa.rating >= filters.rating)
                  ELSE byCategory
      byDate == IF Has(filters, "dateRange")
                THEN SelectSeq(byRating, LAMBDA qa : /\ qa.timestamp >= filters.dateRange.start
                                                     /\ qa.timestamp < filters.dateRange.end)
                ELSE byRating
  IN Return(db, sort(byDate, OrString(filters, "sortBy", "newest")))

\* getPrompts: a filter is applied when its value is truthy; the copy is sorted, this.data.qas
\* is not
getPrompts(db, filters) ==
  LET copy == db.data.qas
      byFolder == IF Has(filters, "folder") /\ filters.folder # "" /\ filters.folder # "all"
                  THEN SelectSeq(copy, LAMBDA qa : qa.folder = filters.folder) ELSE copy
      byCategory == IF Has(filters, "category") /\ filters.category # ""
                    THEN SelectSeq(byFolder, LAMBDA qa : qa.category = filters.category)
                    ELSE byFolder
      bySearch == IF Has(filters, "search") /\ filters.search # ""
                  THEN SelectSeq(byCategory,
                                 LAMBDA qa : matchesSearch(qa, toLowerCase(Spell[filters.search])))
                  ELSE byCategory
      byRating == IF Has(filters, "rating") /\ filters.rating # 0
                  THEN SelectSeq(bySearch, LAMBDA qa : qa.rating >= filters.rating)
                  ELSE bySearch
      byDate == IF Has(filters, "dateRange")
                THEN SelectSeq(byRating, LAMBDA qa : /\ qa.timestamp >= filters.dateRange.start
                                                     /\ qa.timestamp <= filters.dateRange.end)
                ELSE byRating
  IN Return(db, sort(byDate, OrString(filters, "sortBy", "newest")))

\* incrementViews marking the document dirty whether or not a record has the id
incrementViewsAlwaysMarks(db, id) ==
  LET index == findIndex(db.data.qas, id)
      bumped == [db EXCEPT !.data.qas[index].views = @ + 1,
                           !.data.qas[index].updatedAt = now]
  IN IF index = 0 THEN Return(markDirty(db), "undefined")
     ELSE Return(emit(markDirty(bumped), "viewsIncremented", bumped.data.qas[index]), "undefined")

incrementViews(db, id) ==
  LET index == findIndex(db.data.qas, id)
      bumped == [db EXCEPT !.data.qas[index].views = @ + 1,
                           !.data.qas[index].updatedAt = now]
  IN IF index = 0 THEN Return(db, "undefined")
     ELSE Return(emit(markDirty(bumped), "viewsIncremented", bumped.data.qas[index]), "undefined")

\* clampRating without its lower bound
clampRatingNoFloor(rating) == Min(MaxRating, rating)

\* qa.rating = Math.max(0, Math.min(5, rating))
clampRating(rating) == Max(MinRating, Min(MaxRating, rating))

updateRating(db, id, rating) ==
  LET index == findIndex(db.data.qas, id)
      rated == [db EXCEPT !.data.qas[index].rating = clampRating(rating),
                          !.data.qas[index].updatedAt = now]
  IN IF index = 0 THEN Return(db, "undefined")
     ELSE Return(emit(markDirty(rated), "ratingUpdated", rated.data.qas[index]), "undefined")

addFolder(db, name) ==
  IF ~Includes(db.data.folders, name)
  THEN Return(emit(markDirty([db EXCEPT !.data.folders = Append(@, name)]), "folderAdded", name),
              TRUE)
  ELSE Return(db, FALSE)

\* isSystemFolder with two of the four names forgotten
isSystemFolderPartial(name) == name \in {"all", "default"}

\* the guard of deleteFolder: the names it refuses
isSystemFolder(name) == Includes(ProtectedFolders, name)

\* deleteFolder without the forEach that moves the folder's records to default
deleteFolderNoMove(db, name) ==
  LET index == IndexOf(db.data.folders, name)
      removed == [db EXCEPT !.data.folders = RemoveAt(@, index)]
  IN IF isSystemFolder(name) THEN Throw(db, "Cannot delete system folders")
     ELSE IF index > 0 THEN Return(emit(markDirty(removed), "folderDeleted", name), TRUE)
     ELSE Return(db, FALSE)

deleteFolder(db, name) ==
  LET index == IndexOf(db.data.folders, name)
      moved == [db EXCEPT
                  !.data.qas = [i \in 1..Len(@) |->
                                  IF @[i].folder = name THEN [@[i] EXCEPT !.folder = "default"]
                                  ELSE @[i]],
                  !.data.folders = RemoveAt(@, index)]
  IN IF isSystemFolder(name) THEN Throw(db, "Cannot delete system folders")
     ELSE IF index > 0 THEN Return(emit(markDirty(moved), "folderDeleted", name), TRUE)
     ELSE Return(db, FALSE)

\* the forEach of moveToFolder: the document and the records moved so far
RECURSIVE moveEach(_, _, _, _)
moveEach(db, ids, folder, movedPrompts) ==
  IF ids = <<>> THEN [db |-> db, movedPrompts |-> movedPrompts]
  ELSE LET index == findIndex(db.data.qas, Head(ids))
           set == [db EXCEPT !.data.qas[index].folder = folder,
                             !.data.qas[index].updatedAt = now]
       IN IF index = 0 THEN moveEach(db, Tail(ids), folder, movedPrompts)
          ELSE moveEach(set, Tail(ids), folder, Append(movedPrompts, set.data.qas[index]))

moveToFolder(db, ids, folder) ==
  LET done == moveEach(db, ids, folder, <<>>)
  IN IF Len(done.movedPrompts) > 0
     THEN Return(emit(markDirty(done.db), "promptsMoved",
                      [prompts |-> done.movedPrompts, folder |-> folder]),
                 done.movedPrompts)
     ELSE Return(done.db, done.movedPrompts)

\* the forEach of batchDelete: a failed deletePrompt is logged and skipped
RECURSIVE deleteEach(_, _, _)
deleteEach(db, ids, deletedPrompts) ==
  IF ids = <<>> THEN [db |-> db, deletedPrompts |-> deletedPrompts]
  ELSE LET one == deletePrompt(db, Head(ids))
       IN IF one.threw THEN deleteEach(db, Tail(ids), deletedPrompts)
          ELSE deleteEach(one.db, Tail(ids), Append(deletedPrompts, one.value))

\* batchDelete without the try/catch around deletePrompt: the first id that no record has
\* ends the call with the not-found error
batchDeleteUncaught(db, ids) ==
  LET fails(i) ==
        findIndex(deleteEach(db, SubSeq(ids, 1, i - 1), <<>>).db.data.qas, ids[i]) = 0
      first == CHOOSE i \in 1..Len(ids) : fails(i) /\ \A j \in 1..(i - 1) : ~fails(j)
      done == deleteEach(db, ids, <<>>)
  IN IF \E i \in 1..Len(ids) : fails(i)
     THEN Throw(deleteEach(db, SubSeq(ids, 1, first - 1), <<>>).db, "Prompt not found")
     ELSE Return(emit(done.db, "batchDeleted", done.deletedPrompts), done.deletedPrompts)

batchDelete(db, ids) ==
  LET done == deleteEach(db, ids, <<>>)
  IN Return(emit(done.db, "batchDeleted", done.deletedPrompts), done.deletedPrompts)

exportData(db) ==
  JSONstringify(ObjectSpread(db.data, [exportedAt |-> now, exportVersion |-> "2.0"]))

\* mergeImported without the filter on the ids already present
mergeImportedAll(db, importedData) ==
  LET pushed == [db EXCEPT !.data.qas = @ \o importedData.qas]
  IN IF Has(importedData, "folders")
     THEN Return([pushed EXCEPT !.data.folders = Dedupe(@ \o importedData.folders)],
                 importedData.qas)
     ELSE Throw(pushed, "TypeError: importedData.folders is not iterable")

\* the merge branch of importData up to the statement that fails, if one does
mergeImported(db, importedData) ==
  LET existingIds == QaIds(db.data.qas)
      newQAs == SelectSeq(importedData.qas, LAMBDA qa : qa.id \notin existingIds)
      pushed == [db EXCEPT !.data.qas = @ \o newQAs]
  IN IF Has(importedData, "folders")
     THEN Return([pushed EXCEPT !.data.folders = Dedupe(@ \o importedData.folders)], newQAs)
     ELSE Throw(pushed, "TypeError: importedData.folders is not iterable")

\* replaceImported taking the records alone and resetting the rest of the document
replaceImportedQasOnly(db, importedData) ==
  [db EXCEPT !.data = [DefaultData(now) EXCEPT !.qas = importedData.qas]]

\* the replace branch of importData
replaceImported(db, importedData) ==
  [db EXCEPT !.data =
     [ObjectSpread(db.data, importedData) EXCEPT
        !.metadata = ObjectSpread(db.data.metadata, [lastModified |-> now])]]

\* markDirty, the forced save and the event that end both branches
finishImport(db, success) ==
  emit(saveData(markDirty(db), TRUE, success).db, "dataImported", "this.data")

importData(db, jsonData, merge, success) ==
  IF ~Parses(jsonData) THEN Throw(db, "SyntaxError")
  ELSE LET importedData == JSONparse(jsonData)
           merged == mergeImported(db, importedData)
           replaced == replaceImported(db, importedData)
       IN IF validateThrows(importedData)
          THEN Throw(db, "TypeError: Cannot read properties of null (reading 'id')")
          ELSE IF ~isValid(importedData) THEN Throw(db, "Invalid data format")
          ELSE IF merge
               THEN IF merged.threw THEN merged
                    ELSE Throw(finishImport(merged.db, success),
                               "ReferenceError: newQAs is not defined")
               ELSE Return(finishImport(replaced, success),
                           [success |-> TRUE, imported |-> Len(importedData.qas),
                            total |-> Len(replaced.data.qas)])

clearData(db) ==
  LET cleared == [db EXCEPT !.data =
                    [qas |-> <<>>, folders |-> ProtectedFolders,
                     categories |-> db.data.categories, settings |-> db.data.settings,
                     metadata |-> [version |-> "2.0", createdAt |-> now, lastModified |-> now]]]
  IN Return(emit(markDirty(cleared), "dataCleared", "undefined"), "undefined")

(* ----- the inputs the model draws ----- *)
\* Math.random() in thousandths
RandomDraws == {500}
\* the draws of one call of addSampleData: nine calls of Math.random()
RandomStreams == {[k \in 1..9 |-> draw] : draw \in RandomDraws}

Questions == {"Fix SQL bug"}
RatingInputs == {-1, 3, 7}
\* the ids a caller passes: those of the records and one that no record has
IdInputs(qas) == QaIds(qas) \cup {404}

\* a record as another installation exported it
ForeignQA(id, folder, rating) ==
  [id |-> id, question |-> "Plan team goals", answer |-> "imported", category |-> "business",
   tags |-> <<"business", "team", "goals", "plan">>, folder |-> folder, rating |-> rating,
   views |-> 0, score |-> 8, timestamp |-> 0, createdAt |-> 0, updatedAt |-> 0]

ImportSources ==
  {"exportData", "workDoc", "bareDoc", "noFolders", "badRating", "null", "nullEntry", "garbage"}

\* the text a caller hands to importData
ImportText(source, db) ==
  CASE source = "exportData" -> exportData(db)
    [] source = "workDoc" ->
         JSONstringify([qas |-> <<ForeignQA(101, "work", 0)>>,
                        folders |-> ProtectedFolders \o <<"work">>,
                        categories |-> <<"general">>,
                        settings |-> [DefaultSettings EXCEPT !.sortBy = "oldest"]])
    [] source = "bareDoc" ->
         JSONstringify([qas |-> <<ForeignQA(101, "default", 4), ForeignQA(102, "work", 0)>>,
                        folders |-> <<"work", "work">>])
    [] source = "noFolders" -> JSONstringify([qas |-> <<ForeignQA(102, "default", 0)>>])
    [] source = "badRating" ->
         JSONstringify([qas |-> <<ForeignQA(101, "default", 9)>>, folders |-> ProtectedFolders])
    [] source = "null" -> JSONstringify([primitive |-> "null"])
    [] source = "nullEntry" -> JSONstringify([qas |-> <<[primitive |-> "null"]>>])
    [] source = "garbage" -> [garbage |-> "{"]

\* destroy: a last save when dirty, clearTimeout of the debounce timer, observers.clear();
\* the interval of setupAutoSave is not touched
destroy(db, success) ==
  LET saved == IF db.isDirty THEN saveData(db, FALSE, success).db ELSE db
  IN Return([saved EXCEPT !.autoSaveTimeout = {}, !.observers = <<>>], "undefined")

(* ----- the state machine ----- *)
\* this, with nothing emitted yet by the call that starts
Self ==
  [data |-> data, isDirty |-> isDirty, autoSaveTimeout |-> autoSaveTimeout,
   autoSaveInterval |-> autoSaveInterval, observers |-> observers, invoked |-> <<>>,
   localStorage |-> localStorage, emitted |-> <<>>]

\* a new QADatabase over the backend as it is
Fresh(storage) ==
  [data |-> DefaultData(now), isDirty |-> FALSE, autoSaveTimeout |-> {},
   autoSaveInterval |-> {}, observers |-> <<>>, invoked |-> <<>>,
   localStorage |-> storage, emitted |-> <<>>]

\* a call ends: the store, the call and what its caller gets
Finish(out, made) ==
  /\ data' = out.db.data
  /\ isDirty' = out.db.isDirty
  /\ autoSaveTimeout' = out.db.autoSaveTimeout
  /\ autoSaveInterval' = out.db.autoSaveInterval
  /\ observers' = out.db.observers
  /\ invoked' = out.db.invoked
  /\ localStorage' = out.db.localStorage
  /\ emitted' = out.db.emitted
  /\ call' = made
  /\ result' = [threw |-> out.threw, value |-> out.value]
  /\ UNCHANGED now

\* new QADatabase() on a page whose backend holds the items of storage
InitOver(storage) ==
  /\ now = 0
  /\ \E random \in RandomStreams :
       LET db == init(Fresh(storage), random)
       IN /\ data = db.data
          /\ isDirty = db.isDirty
          /\ autoSaveTimeout = db.autoSaveTimeout
          /\ autoSaveInterval = db.autoSaveInterval
          /\ observers = db.observers
          /\ invoked = db.invoked
          /\ localStorage = db.localStorage
          /\ emitted = db.emitted
  /\ call = [op |-> "constructor"]
  /\ result = [threw |-> FALSE, value |-> "constructed"]

Init == InitOver({})

Construct(random) ==
  Finish(Return(init(Fresh(localStorage), random), "constructed"), [op |-> "constructor"])

AddPrompt(question, answer, options, draw) ==
  /\ Len(data.qas) < MaxQas
  /\ Finish(addPrompt(Self, question, answer, options, draw),
            [op |-> "addPrompt", options |-> options])

UpdatePrompt(id, updates) ==
  Finish(updatePrompt(Self, id, updates), [op |-> "updatePrompt", id |-> id, updates |-> updates])

DeletePrompt(id) == Finish(deletePrompt(Self, id), [op |-> "deletePrompt", id |-> id])

\* the views a record starts with: 0 when added or imported, Math.floor(Math.random() * 50) + 10
\* when it is a sample
InitialViews == {0} \cup {randomBelow(draw, 50) + 10 : draw \in RandomDraws}
\* how many times the record was viewed since, as far as the bound is concerned
ViewsSince(views) == views - Max(0, CHOOSE v \in InitialViews :
                                     v <= views /\ \A w \in InitialViews : w <= views => w <= v)

IncrementViews(id) ==
  /\ \A i \in 1..Len(data.qas) : data.qas[i].id = id => ViewsSince(data.qas[i].views) < MaxViews
  /\ Finish(incrementViews(Self, id), [op |-> "incrementViews", id |-> id])

UpdateRating(id, rating) ==
  Finish(updateRating(Self, id, rating), [op |-> "updateRating", id |-> id, rating |-> rating])

AddFolder(name) == Finish(addFolder(Self, name), [op |-> "addFolder", name |-> name])

DeleteFolder(name) == Finish(deleteFolder(Self, name), [op |-> "deleteFolder", name |-> name])

MoveToFolder(ids, folder) ==
  Finish(moveToFolder(Self, ids, folder), [op |-> "moveToFolder", ids |-> ids, folder |-> folder])

BatchDelete(ids) == Finish(batchDelete(Self, ids), [op |-> "batchDelete", ids |-> ids])

ImportData(source, merge, success) ==
  LET out == importData(Self, ImportText(source, Self), merge, success)
  IN /\ Len(out.db.data.qas) <= MaxQas
     /\ Finish(out, [op |-> "importData", source |-> source, merge |-> merge])

ClearData == Finish(clearData(Self), [op |-> "clearData"])

\* categorizePrompt(prompt), called from outside
CategorizePrompt(prompt) ==
  Finish(Return(Self, categorizePrompt(prompt)), [op |-> "categorizePrompt", prompt |-> prompt])

GetPrompts(filters) ==
  Finish(getPrompts(Self, filters), [op |-> "getPrompts", filters |-> filters])

\* saveData(force), called from outside
SaveData(force, success) ==
  Finish(saveData(Self, force, success), [op |-> "saveData", force |-> force])

Destroy(success) == Finish(destroy(Self, success), [op |-> "destroy"])

On(event, callback) ==
  Finish(Return(on(Self, event, callback), "undefined"),
         [op |-> "on", event |-> event, callback |-> callback])

Off(event, callback) ==
  Finish(Return(off(Self, event, callback), "undefined"),
         [op |-> "off", event |-> event, callback |-> callback])

\* one tick of the clock, the time unit of the timers: the quiet window of markDirty is 2 units
TickMs == DebounceDelay \div 2

\* the timers that are pending, by the time they are due
PendingTimers == autoSaveTimeout \cup autoSaveInterval

\* time passes, one time unit at a time, up to the moment a pending timer is due
Tick ==
  /\ now < MaxTicks * TickMs
  /\ \A due \in PendingTimers : now < due
  /\ now' = now + TickMs
  /\ UNCHANGED <<data, isDirty, autoSaveTimeout, autoSaveInterval, observers, invoked,
                 localStorage, emitted, call, result>>

\* the callback of the debounce timer markDirty set, run when the timer is due
AutoSaveTimeout(success) ==
  \E due \in autoSaveTimeout :
    /\ due <= now
    /\ Finish(saveData([Self EXCEPT !.autoSaveTimeout = @ \ {due}], FALSE, success),
              [op |-> "autoSaveTimeout"])

\* autoSave, the callback of the interval timer, run at each of its ticks
AutoSave(success) ==
  \E due \in autoSaveInterval :
    /\ due <= now
    /\ LET rearmed == [Self EXCEPT !.autoSaveInterval = {due + AutoSaveInterval}]
       IN Finish(IF isDirty THEN saveData(rearmed, FALSE, success)
                 ELSE Return(rearmed, "undefined"),
                 [op |-> "autoSave"])

\* the beforeunload listener of setupAutoSave
BeforeUnload(success) ==
  /\ autoSaveInterval # {}
  /\ Finish(IF isDirty THEN saveData(Self, FALSE, success) ELSE Return(Self, "undefined"),
            [op |-> "beforeunload"])

\* folders: records enter, leave and change folders, folders come and go
NextFolders ==
  \/ \E question \in Questions, draw \in RandomDraws :
       AddPrompt(question, "", [folder |-> "work"], draw)
  \/ \E id \in IdInputs(data.qas) : DeletePrompt(id)
  \/ \E name \in {"work", "default"} : AddFolder(name)
  \/ \E name \in {"work", "all", "favorites", "archive", "default"} : DeleteFolder(name)
  \/ \E id \in IdInputs(data.qas), folder \in {"work", "archive"} : MoveToFolder(<<id>>, folder)
  \/ ClearData

Spec == Init /\ [][NextFolders]_vars

\* records: ratings and ids change
NextRecords ==
  \/ \E question \in Questions, draw \in RandomDraws :
       AddPrompt(question, "", [rating |-> 9], draw)
  \/ \E id \in IdInputs(data.qas), updates \in {[rating |-> 9], [id |-> 1]} :
       UpdatePrompt(id, updates)
  \/ \E id \in IdInputs(data.qas), rating \in RatingInputs : UpdateRating(id, rating)
  \/ ClearData

SpecRecords == Init /\ [][NextRecords]_vars

\* import: documents are imported, merged and exported, folders come and go; the backend
\* may refuse the write of a replacing import, the writes of merging imports it accepts
NextImport ==
  \/ \E source \in ImportSources, merge \in BOOLEAN :
       \E success \in {TRUE, ~merge} : ImportData(source, merge, success)
  \/ \E name \in {"work"} : AddFolder(name)
  \/ \E name \in {"work"} : DeleteFolder(name)

SpecImport == Init /\ [][NextImport]_vars

\* three records saved on earlier days, not in the order of their timestamps
LibraryQAs ==
  <<[ForeignQA(101, "archive", 4) EXCEPT !.timestamp = 0 - DayMs, !.views = 5],
    [ForeignQA(102, "default", 0) EXCEPT !.timestamp = 0 - 3 * DayMs, !.views = 0,
                                         !.question = "Fix SQL bug", !.category = "coding",
                                         !.tags = <<"coding", "sql">>],
    [ForeignQA(103, "archive", 2) EXCEPT !.timestamp = 0 - 2 * DayMs, !.views = 9]>>

\* what the backend may hold when the page opens
PersistedDocs ==
  {"absent", "garbage", "null", "noQas", "badRating", "empty", "records", "nullEntry"}

PersistedText(doc) ==
  CASE doc = "garbage" -> [garbage |-> "{"]
    [] doc = "null" -> JSONstringify([primitive |-> "null"])
    [] doc = "noQas" -> JSONstringify([folders |-> <<"work">>])
    [] doc = "badRating" ->
         JSONstringify([qas |-> <<ForeignQA(101, "default", 9)>>, folders |-> ProtectedFolders])
    [] doc = "empty" -> JSONstringify([qas |-> <<>>, folders |-> ProtectedFolders \o <<"work">>])
    [] doc = "records" ->
         JSONstringify([qas |-> <<ForeignQA(101, "default", 4)>>, folders |-> ProtectedFolders])
    [] doc = "nullEntry" -> JSONstringify([qas |-> <<[primitive |-> "null"]>>])
    [] doc = "library" -> JSONstringify([qas |-> LibraryQAs, folders |-> ProtectedFolders])

PersistedStorage(doc) ==
  IF doc = "absent" THEN {} ELSE {[key |-> StorageKey, text |-> PersistedText(doc)]}

\* startup: the page opens over any backend, records are viewed and deleted, the document
\* is saved, the store is torn down, the page is opened again
InitStartup == \E doc \in PersistedDocs : InitOver(PersistedStorage(doc))

NextStartup ==
  \/ \E random \in RandomStreams : Construct(random)
  \/ \E id \in IdInputs(data.qas) : IncrementViews(id)
  \/ BatchDelete([i \in 1..Len(data.qas) |-> data.qas[i].id])
  \/ \E force \in BOOLEAN, success \in BOOLEAN : SaveData(force, success)
  \/ \E success \in BOOLEAN : BeforeUnload(success)
  \/ \E success \in BOOLEAN : Destroy(success)

SpecStartup == InitStartup /\ [][NextStartup]_vars

\* timers: folders come and go while time passes and the timers run
InitTimers == \E doc \in {"absent", "nullEntry"} : InitOver(PersistedStorage(doc))

NextTimers ==
  \/ Tick
  \/ \E name \in {"work"} : AddFolder(name)
  \/ \E name \in {"work"} : DeleteFolder(name)
  \/ \E success \in BOOLEAN : AutoSaveTimeout(success)
  \/ \E success \in BOOLEAN : AutoSave(success)

\* a timer that is due runs, and the clock does not stop before MaxTicks
SpecTimers ==
  /\ InitTimers
  /\ [][NextTimers]_vars
  /\ WF_vars(Tick)
  /\ WF_vars(\E success \in BOOLEAN : AutoSaveTimeout(success))
  /\ WF_vars(\E success \in BOOLEAN : AutoSave(success))

\* events: callbacks subscribe and unsubscribe while folders come and go
EventInputs == {"folderAdded", "folderDeleted"}
CallbackInputs == {"cbLogs", "cbThrows"}

NextEvents ==
  \/ \E event \in EventInputs, callback \in CallbackInputs : On(event, callback)
  \/ \E event \in EventInputs, callback \in CallbackInputs : Off(event, callback)
  \/ \E name \in {"work"} : AddFolder(name)
  \/ \E name \in {"work"} : DeleteFolder(name)

SpecEvents == Init /\ [][NextEvents]_vars

\* the ids a caller passes in the prompts specification: the id of the record listed first
\* and one that no record has
PromptIds(qas) == (IF qas = <<>> THEN {} ELSE {qas[1].id}) \cup {404}

\* the id lists a caller passes to batchDelete: every id, every id with a missing one and a
\* repeated one in between, and a missing one alone
BatchInputs(qas) ==
  LET all == IF qas = <<>> THEN <<>> ELSE [i \in 1..Len(qas) |-> qas[i].id]
  IN {all, <<404>> \o all \o Slice(all, 1), <<404>>}

\* prompts: the page opens over a saved document of one record; each mutating operation of
\* the store runs, on the record listed first or on a missing one; the backend accepts the write of a replacing import and refuses that of a
\* merging one
NextPrompts ==
  \/ \E question \in Questions, draw \in RandomDraws :
       AddPrompt(question, "", [folder |-> "work"], draw)
  \/ \E id \in PromptIds(data.qas) : UpdatePrompt(id, [folder |-> "work"])
  \/ \E id \in PromptIds(data.qas) : DeletePrompt(id)
  \/ \E id \in PromptIds(data.qas) : IncrementViews(id)
  \/ \E id \in PromptIds(data.qas) : UpdateRating(id, 0)
  \/ \E name \in {"work"} : AddFolder(name)
  \/ \E name \in {"work"} : DeleteFolder(name)
  \/ \E id \in QaIds(Slice(data.qas, 1)) : MoveToFolder(<<id>>, "work")
  \/ \E ids \in BatchInputs(data.qas) : BatchDelete(ids)
  \/ \E merge \in BOOLEAN : ImportData("workDoc", merge, ~merge)
  \/ ClearData

InitPrompts == InitOver(PersistedStorage("records"))

SpecPrompts == InitPrompts /\ [][NextPrompts]_vars

\* the longest id list the model passes to batchDelete
MaxIds == 3

\* the id lists of at most n ids, each an id of a record or the missing one
RECURSIVE IdLists(_, _)
IdLists(ids, n) ==
  IF n = 0 THEN {<<>>}
  ELSE LET shorter == IdLists(ids, n - 1)
       IN shorter \cup {Append(list, id) : list \in shorter, id \in ids}

\* edits: the page opens over a saved document of three records; records are edited and
\* deleted, one by one and in batches, by ids that exist, are missing or are repeated
InitEdit == InitOver(PersistedStorage("library"))

NextEdit ==
  \/ \E id \in IdInputs(data.qas) : UpdatePrompt(id, [answer |-> "edited"])
  \/ \E id \in IdInputs(data.qas) : DeletePrompt(id)
  \/ \E ids \in IdLists(IdInputs(data.qas), MaxIds) : BatchDelete(ids)

SpecEdit == InitEdit /\ [][NextEdit]_vars

\* the options a caller passes to addPrompt with the question of Questions
OptionInputs == {[folder |-> "work", rating |-> 4], [category |-> "design"], [score |-> 3]}

\* Math.random() in thousandths, for the score of a new record: the least, a middle and the
\* greatest draw
ScoreDraws == {0, 500, 999}

\* additions: texts are categorized, a question is added without options (options = {}) and
\* with options, the document is cleared
NextAdd ==
  \/ \E prompt \in Prompts : CategorizePrompt(prompt)
  \/ \E question \in Questions, draw \in ScoreDraws : AddPrompt(question, "", <<>>, draw)
  \/ \E question \in Questions, options \in OptionInputs, draw \in RandomDraws :
       AddPrompt(question, "given", options, draw)
  \/ ClearData

SpecAdd == Init /\ [][NextAdd]_vars

\* the filters a caller passes to getPrompts, each key absent or holding one of its values:
\* the four record filters in every combination, a search term, and each sort key with and
\* without a folder filter
FilterInputs ==
  LET Optional(key, values) ==
        {[k \in {} |-> 0]} \cup {[k \in {key} |-> value] : value \in values}
  IN {ObjectSpread(folder, ObjectSpread(category, ObjectSpread(rating, dateRange))) :
        folder \in Optional("folder", {"all", "archive", ""}),
        category \in Optional("category", {"coding", ""}),
        rating \in Optional("rating", {0, 3}),
        dateRange \in Optional("dateRange", {[start |-> 0 - 2 * DayMs, end |-> 0 - DayMs]})}
     \cup {[search |-> "team"]}
     \cup {ObjectSpread(folder, [sortBy |-> sortBy]) :
             folder \in Optional("folder", {"archive"}),
             sortBy \in {"newest", "oldest", "mostViewed", "rating", "alphabetical",
                         "shuffle"}}

\* queries: the page opens over a saved document of three records; records are rated, in
\* and out of range, and the document is queried
NextQuery ==
  \/ \E filters \in FilterInputs : GetPrompts(filters)
  \/ \E id \in QaIds(data.qas) : UpdateRating(id, 2)
  \/ \E id \in QaIds(data.qas) : UpdatePrompt(id, [rating |-> -1])

SpecQuery == InitEdit /\ [][NextQuery]_vars

\* reload: records are added, edited and rated, the document is saved and the page is
\* opened again over what the backend holds
OptionsGiven == {<<>>, [rating |-> 9]}
UpdatesGiven == {[rating |-> 9]}

NextReload ==
  \/ \E question \in Questions, options \in OptionsGiven, draw \in RandomDraws :
       AddPrompt(question, "", options, draw)
  \/ \E id \in PromptIds(data.qas), updates \in UpdatesGiven : UpdatePrompt(id, updates)
  \/ \E id \in PromptIds(data.qas) : UpdateRating(id, 3)
  \/ \E success \in BOOLEAN : SaveData(FALSE, success)
  \/ \E random \in RandomStreams : Construct(random)

SpecReload == InitPrompts /\ [][NextReload]_vars

(* ----- the properties ----- *)
EventNames == [i \in 1..Len(emitted) |-> emitted[i].event]
ProtectedNames == {"all", "favorites", "archive", "default"}
FolderSet(document) == {document.folders[i] : i \in 1..Len(document.folders)}
\* the place of the first record with the id
FirstWithId(qas, id) ==
  CHOOSE i \in 1..Len(qas) : qas[i].id = id /\ \A j \in 1..(i - 1) : qas[j].id # id
\* the text the last call of importData was given, read in the state before it
ImportedText == ImportText(call'.source, Self)
ImportedIsValid == Parses(ImportedText) /\ isValid(JSONparse(ImportedText))

\* C1: in every reachable state every record's folder is a member of the document's
\* folders list.
C1_FolderMembership == \A i \in 1..Len(data.qas) : data.qas[i].folder \in FolderSet(data)

\* C2: in every reachable state no two records of the document have the same id.
C2_UniqueIds ==
  \A i, j \in 1..Len(data.qas) : i # j => data.qas[i].id # data.qas[j].id

\* C3: in every reachable state the folders list contains all four protected names.
C3_ProtectedFoldersKept == ProtectedNames \subseteq FolderSet(data)

\* the records of a document with those in the folder moved to default
Reassigned(qas, name) ==
  [i \in 1..Len(qas) |->
     IF qas[i].folder = name THEN [qas[i] EXCEPT !.folder = "default"] ELSE qas[i]]

\* C4 as stated: deleteFolder(name) for any non-protected name moves the records of name to
\* default, leaves name out of folders, marks the document dirty and emits folderDeleted.
C4_DeleteFolderAnyName ==
  [][(call'.op = "deleteFolder" /\ call'.name \notin ProtectedNames) =>
       /\ data'.qas = Reassigned(data.qas, call'.name)
       /\ call'.name \notin FolderSet(data')
       /\ isDirty'
       /\ EventNames' = <<"folderDeleted">>]_vars

\* C4, amended: deleteFolder(name) for a non-protected name that is in the folders list moves
\* every record of name to default (so that no record has folder name afterwards), removes
\* the first occurrence of name from folders, marks the document dirty, schedules the
\* debounced save, emits folderDeleted and returns true; for a non-protected name that is not
\* in the list it returns false and changes nothing.
C4_DeleteFolderListedName ==
  [][(call'.op = "deleteFolder" /\ call'.name \notin ProtectedNames) =>
       IF call'.name \in FolderSet(data)
       THEN /\ data'.qas = Reassigned(data.qas, call'.name)
            /\ \A i \in 1..Len(data'.qas) : data'.qas[i].folder # call'.name
            /\ \E k \in 1..Len(data.folders) :
                 /\ data.folders[k] = call'.name
                 /\ \A j \in 1..(k - 1) : data.folders[j] # call'.name
                 /\ data'.folders = SubSeq(data.folders, 1, k - 1)
                                      \o SubSeq(data.folders, k + 1, Len(data.folders))
            /\ isDirty'
            /\ autoSaveTimeout' # {}
            /\ EventNames' = <<"folderDeleted">>
            /\ ~result'.threw /\ result'.value = TRUE
       ELSE /\ data' = data
            /\ isDirty' = isDirty
            /\ autoSaveTimeout' = autoSaveTimeout
            /\ EventNames' = <<>>
            /\ ~result'.threw /\ result'.value = FALSE]_vars

\* deleteFolder("work") has moved the record that workDoc brought in folder work
C4_Witness ==
  /\ call.op = "deleteFolder" /\ call.name = "work"
  /\ ~result.threw /\ result.value = TRUE
  /\ \E i \in 1..Len(data.qas) :
       data.qas[i].id = 101 /\ data.qas[i].rating = 0 /\ data.qas[i].folder = "default"

\* C5: deleteFolder with a protected name throws and leaves the records, the folders, the
\* dirty flag, the timer and the backend as they were, with no event emitted.
C5_ProtectedFolderRefused ==
  [][(call'.op = "deleteFolder" /\ call'.name \in ProtectedNames) =>
       /\ result'.threw
       /\ data' = data
       /\ isDirty' = isDirty
       /\ autoSaveTimeout' = autoSaveTimeout
       /\ localStorage' = localStorage
       /\ EventNames' = <<>>]_vars

C5_Witness == call.op = "deleteFolder" /\ call.name = "favorites" /\ result.threw

\* C6: after updateRating(id, r) on an id some record has, the rating of the first record
\* with that id is min(5, max(0, r)), a value in 0..5.
C6_UpdateRatingClamps ==
  [][(call'.op = "updateRating" /\ call'.id \in QaIds(data.qas)) =>
       LET r == call'.rating
           floored == IF r < 0 THEN 0 ELSE r
           clamped == IF floored > 5 THEN 5 ELSE floored
       IN /\ data'.qas[FirstWithId(data.qas, call'.id)].rating = clamped
          /\ clamped \in 0..5]_vars

\* updateRating was given a rating above 5 and a negative one, and stored 5 and 0
C6_Witness ==
  /\ call.op = "updateRating" /\ call.rating > 5
  /\ call.id \in QaIds(data.qas)
  /\ data.qas[FirstWithId(data.qas, call.id)].rating = 5
  /\ \E i \in 1..Len(data.qas) : data.qas[i].rating = 0

\* C7: in every reachable state every record's rating is in 0..5.
C7_RatingInRange == \A i \in 1..Len(data.qas) : data.qas[i].rating \in 0..5

\* C8: importData(exportData(), merge = false) leaves records, folders, categories and
\* settings as they were.
C8_ExportImportRoundTrip ==
  [][(call'.op = "importData" /\ call'.source = "exportData" /\ ~call'.merge) =>
       /\ data'.qas = data.qas
       /\ data'.folders = data.folders
       /\ data'.categories = data.categories
       /\ data'.settings = data.settings]_vars

\* an exported document with records, its own folder, categories and settings was imported
C8_Witness ==
  /\ call.op = "importData" /\ call.source = "exportData" /\ ~call.merge
  /\ ~result.threw
  /\ Len(data.qas) > 0
  /\ "work" \in FolderSet(data)
  /\ data.categories # DefaultCategories
  /\ data.settings # DefaultSettings

\* C9: importData(payload, merge = true) with a valid payload appends exactly the payload's
\* records whose id no record had, in order, makes folders the union of both folder lists,
\* and run again with the same payload changes neither records nor folders.
C9_MergeImport ==
  [][(call'.op = "importData" /\ call'.merge /\ ImportedIsValid) =>
       LET importedData == JSONparse(ImportedText)
           absent == SelectSeq(importedData.qas, LAMBDA qa : qa.id \notin QaIds(data.qas))
           again == importData(Self', ImportedText, TRUE, TRUE).db.data
       IN /\ data'.qas = data.qas \o absent
          /\ FolderSet(data') =
               FolderSet(data) \cup (IF Has(importedData, "folders")
                                     THEN FolderSet(importedData) ELSE {})
          /\ again.qas = data'.qas
          /\ again.folders = data'.folders]_vars

\* bareDoc was merged into a document that held record 101 already: 101 kept, 102 appended
C9_Witness ==
  /\ call.op = "importData" /\ call.merge /\ call.source = "bareDoc"
  /\ \E i, j \in 1..Len(data.qas) :
       /\ i < j
       /\ data.qas[i].id = 101 /\ data.qas[i].rating = 0
       /\ data.qas[j].id = 102 /\ data.qas[j].folder = "work"
  /\ Cardinality({i \in 1..Len(data.qas) : data.qas[i].id = 101}) = 1

\* C10: importData with a valid payload, in either mode, marks the document dirty, saves
\* with force, emits dataImported once, after the save, and returns a success result
\* without throwing.
C10_ImportSucceeds ==
  [][(call'.op = "importData" /\ ImportedIsValid) =>
       /\ EventNames' \in {<<"saved", "dataImported">>, <<"saveError", "dataImported">>}
       /\ isDirty' = (EventNames'[1] = "saveError")
       /\ autoSaveTimeout' # {}
       /\ ~result'.threw
       /\ result'.value.success]_vars

\* the operations that signal a failure to their caller by throwing
FailingOps == {"updatePrompt", "deletePrompt", "deleteFolder", "importData"}

\* C11: whenever updatePrompt, deletePrompt, deleteFolder or importData (either mode) signals
\* a failure to its caller, the document and the dirty flag are as before the call and the
\* call emitted no event.
C11_FailureChangesNothing ==
  [][(call'.op \in FailingOps /\ result'.threw) =>
       /\ data' = data
       /\ isDirty' = isDirty
       /\ EventNames' = <<>>]_vars

\* the payloads that do not parse or that fail the structural validation
InvalidSources == {"badRating", "null", "nullEntry", "garbage"}

\* C12: importData with a payload that does not parse or fails the structural validation
\* throws to its caller and leaves the document, the dirty flag, the debounce timer and the
\* backend as they were, with no event (so no dataImported) emitted.
C12_InvalidImportRefused ==
  [][(call'.op = "importData" /\ call'.source \in InvalidSources) =>
       /\ result'.threw
       /\ data' = data
       /\ isDirty' = isDirty
       /\ autoSaveTimeout' = autoSaveTimeout
       /\ localStorage' = localStorage
       /\ EventNames' = <<>>]_vars

\* a payload with a rating out of range was refused by a store that holds records
C12_Witness ==
  /\ call.op = "importData" /\ call.source = "badRating"
  /\ result.threw /\ result.value = "Invalid data format"
  /\ Len(data.qas) > 0

\* the document the backend holds, when it holds one that parses to an object
HasStoredDocument ==
  /\ HasItem(localStorage, StorageKey)
  /\ Parses(getItem(localStorage, StorageKey))
  /\ IsObject(JSONparse(getItem(localStorage, StorageKey)))
StoredDocument == JSONparse(getItem(localStorage, StorageKey))
Questions_of(qas) == [i \in 1..Len(qas) |-> qas[i].question]

\* C13: when the constructor's initialization is over, whatever the backend held (nothing,
\* text that does not parse, an invalid document, a valid one with or without records),
\* the record list is not empty: it is the persisted list or the three samples.
C13_NeverEmptyAfterInit ==
  call.op = "constructor" =>
    /\ data.qas # <<>>
    /\ \/ Questions_of(data.qas) = Questions_of(SampleQAs)
       \/ /\ HasStoredDocument
          /\ Has(StoredDocument, "qas")
          /\ data.qas = StoredDocument.qas

\* every record was deleted, the empty document was saved, and the store built over it
\* holds the samples
C13_Witness ==
  /\ call.op = "constructor"
  /\ HasStoredDocument
  /\ Has(StoredDocument, "metadata")
  /\ StoredDocument.qas = <<>>
  /\ Questions_of(data.qas) = Questions_of(SampleQAs)

\* C14: every run of the initialization emits initialized exactly once, with the document
\* as payload, and does not throw to its caller, the runs that take the fallback included.
C14_InitializedOnce ==
  call.op = "constructor" =>
    /\ ~result.threw
    /\ Cardinality({i \in 1..Len(emitted) : emitted[i].event = "initialized"}) = 1
    /\ \A i \in 1..Len(emitted) :
         emitted[i].event = "initialized" => emitted[i].payload = "this.data"

\* the calls of the timers specification that change the document
FolderOps == {"addFolder", "deleteFolder"}

\* C15: every mutation marks the document dirty and replaces the pending debounce timer by
\* one due 2 units later, so that at most one is pending at any time; the debounce timer
\* runs saveData once, at the time it is due, 2 units after the last mutation, and no
\* debounce timer is pending after it.
C15_DebounceCoalesces ==
  [][/\ Cardinality(autoSaveTimeout') <= 1
     /\ (call'.op \in FolderOps /\ now' = now /\ result'.value = TRUE) =>
          (isDirty' /\ autoSaveTimeout' = {now + 2 * TickMs})
     /\ (call'.op = "autoSaveTimeout" /\ now' = now) =>
          /\ autoSaveTimeout = {now}
          /\ autoSaveTimeout' = {}
          /\ EventNames' = IF ~isDirty THEN <<>>
                           ELSE IF isDirty' THEN <<"saveError">> ELSE <<"saved">>]_vars

\* two mutations one unit apart, one save: the document was dirty from time 0, a folder was
\* added at time 1, and the debounce timer saved at time 3
C15_Witness ==
  /\ call.op = "autoSaveTimeout"
  /\ now = 3 * TickMs
  /\ EventNames = <<"saved">>
  /\ "work" \in FolderSet(data)
  /\ HasStoredDocument /\ StoredDocument = data
  /\ autoSaveInterval # {}

\* a step in which no mutation occurs and the backend refuses no write
QuietStep ==
  \/ now' # now
  \/ /\ call'.op \in {"autoSaveTimeout", "autoSave"}
     /\ \A i \in 1..Len(emitted') : emitted'[i].event # "saveError"

\* C16: if from some time on no mutation occurs and the backend accepts every write, then
\* the document does not stay dirty: it is clean from some time on, unless the clock of the
\* model stopped with a save still scheduled.
C16_DirtyLeadsToClean ==
  <>[][QuietStep]_vars => <>[](~isDirty \/ (PendingTimers # {} /\ now = MaxTicks * TickMs))

\* C17: after every initialization, whenever the document is dirty the periodic timer is
\* running and its next tick, which saves a dirty document, is at most 30 units away.
C17_PeriodicSaveArmed ==
  isDirty => \E due \in autoSaveInterval : due <= now + 30 * TickMs

\* C18: after destroy both timers are cancelled, the debounce timer and the periodic timer,
\* so that neither runs a save again, and the subscriptions are released.
C18_DestroyCancelsTimers ==
  call.op = "destroy" => (autoSaveTimeout = {} /\ autoSaveInterval = {} /\ observers = <<>>)

\* what saveData does when it does not return at once: a failed write returns false, emits
\* saveError and changes neither records nor folders; a write that succeeds stores the
\* document, clears the dirty flag and then emits saved
SaveOutcome(flagAfterFailure) ==
  /\ ~result'.threw
  /\ IF result'.value = FALSE
     THEN /\ EventNames' = <<"saveError">>
          /\ isDirty' = flagAfterFailure
          /\ data'.qas = data.qas /\ data'.folders = data.folders
          /\ localStorage' = localStorage
     ELSE /\ EventNames' = <<"saved">>
          /\ ~isDirty' /\ ~emitted'[1].isDirty
          /\ data'.qas = data.qas /\ data'.folders = data.folders
          /\ localStorage' = {[key |-> StorageKey, text |-> [json |-> data']]}

\* C19 as stated: saveData(force) on a clean document without force returns true, writes
\* nothing and emits nothing; when the write fails it returns false without throwing, emits
\* saveError and leaves the dirty flag true; when it succeeds it clears the flag and then
\* emits saved.
C19_FailedSaveLeavesDirty ==
  [][(call'.op = "saveData") =>
       IF ~isDirty /\ ~call'.force
       THEN /\ ~result'.threw /\ result'.value = TRUE
            /\ localStorage' = localStorage /\ data' = data /\ isDirty' = isDirty
            /\ EventNames' = <<>>
       ELSE SaveOutcome(TRUE)]_vars

\* C19, amended: as stated, except that a failed write leaves the dirty flag as it was:
\* true when the document was dirty, false when a clean document was saved with force.
C19_FailedSaveKeepsFlag ==
  [][(call'.op = "saveData") =>
       IF ~isDirty /\ ~call'.force
       THEN /\ ~result'.threw /\ result'.value = TRUE
            /\ localStorage' = localStorage /\ data' = data /\ isDirty' = isDirty
            /\ EventNames' = <<>>
       ELSE SaveOutcome(isDirty)]_vars

\* the backend refused the write of a dirty document that holds records: it is still dirty
C19_Witness ==
  /\ call.op = "saveData"
  /\ ~result.threw /\ result.value = FALSE
  /\ EventNames = <<"saveError">>
  /\ isDirty
  /\ Len(data.qas) > 0

\* the callbacks subscribed to the event, as a set
Subscribers(subscriptions, event) ==
  {subscriptions[i].callback :
     i \in {j \in 1..Len(subscriptions) : subscriptions[j].event = event}}
Subscriptions(subscriptions) == {subscriptions[i] : i \in 1..Len(subscriptions)}
TimesInvoked(calls, callback) ==
  Cardinality({k \in 1..Len(calls) : calls[k].callback = callback})

\* C20: an emit calls every callback subscribed to its event exactly once, whether or not
\* another callback throws, and calls no other callback: none of another event, none that
\* unsubscribed; subscribing twice leaves one subscription, unsubscribing removes it.
C20_EmitReachesEachSubscriber ==
  [][/\ (call'.op \in FolderOps /\ result'.value = TRUE) =>
          LET event == IF call'.op = "addFolder" THEN "folderAdded" ELSE "folderDeleted"
          IN /\ \A callback \in Subscribers(observers, event) :
                  TimesInvoked(invoked', callback) = 1
             /\ \A k \in 1..Len(invoked') :
                  /\ invoked'[k].callback \in Subscribers(observers, event)
                  /\ invoked'[k].event = event
                  /\ invoked'[k].payload = call'.name
     /\ (call'.op = "on") =>
          /\ Subscriptions(observers') =
               Subscriptions(observers)
                 \cup {[event |-> call'.event, callback |-> call'.callback]}
          /\ Cardinality(Subscriptions(observers')) = Len(observers')
          /\ invoked' = <<>>
     /\ (call'.op = "off") =>
          /\ Subscriptions(observers') =
               Subscriptions(observers) \ {[event |-> call'.event, callback |-> call'.callback]}
          /\ invoked' = <<>>]_vars

\* a folder was added while both callbacks were subscribed to folderAdded, the throwing one
\* first, and one to folderDeleted: the first threw and the second was called all the same
C20_Witness ==
  /\ call.op = "addFolder"
  /\ Len(invoked) = 2
  /\ invoked[1].callback = "cbThrows" /\ invoked[1].threw
  /\ invoked[2].callback = "cbLogs" /\ ~invoked[2].threw
  /\ Subscribers(observers, "folderDeleted") # {}

\* the events that announce a change of the document, and the operations that emit them
MutationEvents ==
  {"promptAdded", "promptUpdated", "promptDeleted", "ratingUpdated", "viewsIncremented",
   "folderAdded", "folderDeleted", "promptsMoved", "batchDeleted", "dataImported",
   "dataCleared"}
MutatingOps ==
  {"addPrompt", "updatePrompt", "deletePrompt", "updateRating", "incrementViews", "addFolder",
   "deleteFolder", "moveToFolder", "batchDelete", "importData", "clearData"}

\* C21: whatever a mutating operation emits of the eleven mutation events, the callback
\* called at that moment finds the change applied and the document marked dirty (or, for
\* dataImported, marked dirty and already saved): the document it finds is the one the
\* operation leaves behind; for each promptDeleted of a batchDelete it is the document with
\* the records deleted so far removed, the payload being the record removed last. A
\* batchDelete that deleted nothing changed nothing and has no dirty flag to set.
C21_EventsAfterMutation ==
  [][(call'.op \in MutatingOps) =>
       \A i \in 1..Len(emitted') :
         emitted'[i].event \in MutationEvents =>
           LET seen == emitted'[i]
               before == IF i = 1 THEN data ELSE emitted'[i - 1].data
           IN /\ \/ seen.isDirty
                 \/ \E j \in 1..(i - 1) : emitted'[j].event = "saved"
                 \/ seen.event = "batchDeleted" /\ seen.payload = <<>> /\ data' = data
              /\ IF call'.op = "batchDelete" /\ seen.event = "promptDeleted"
                 THEN /\ seen.payload.id \in QaIds(before.qas)
                      /\ seen.payload = before.qas[FirstWithId(before.qas, seen.payload.id)]
                      /\ seen.data.qas =
                           RemoveAt(before.qas, FirstWithId(before.qas, seen.payload.id))
                 ELSE seen.data = data']_vars

\* a batchDelete deleted the three records of a document: each promptDeleted was delivered
\* with one record fewer in the document, batchDeleted with none left
C21_Witness ==
  /\ call.op = "batchDelete"
  /\ Len(emitted) = 4
  /\ \A k \in 1..3 :
       /\ emitted[k].event = "promptDeleted"
       /\ emitted[k].isDirty
       /\ Len(emitted[k].data.qas) = 3 - k
  /\ emitted[4].event = "batchDeleted"
  /\ Len(emitted[4].payload) = 3
  /\ data.qas = <<>>

\* C22: updatePrompt and deletePrompt with an id that no record has throw the not-found
\* error and leave the document, the dirty flag and the debounce timer as they were, with
\* no event emitted; deletePrompt with an id some record has removes one record, one with
\* that id, and keeps the others in their order.
C22_MissingIdRefused ==
  [][/\ (call'.op \in {"updatePrompt", "deletePrompt"} /\ call'.id \notin QaIds(data.qas)) =>
          /\ result'.threw /\ result'.value = "Prompt not found"
          /\ data' = data
          /\ isDirty' = isDirty
          /\ autoSaveTimeout' = autoSaveTimeout
          /\ EventNames' = <<>>
     /\ (call'.op = "deletePrompt" /\ call'.id \in QaIds(data.qas)) =>
          /\ ~result'.threw
          /\ \E k \in 1..Len(data.qas) :
               /\ data.qas[k].id = call'.id
               /\ data'.qas = SubSeq(data.qas, 1, k - 1) \o SubSeq(data.qas, k + 1, Len(data.qas))
               /\ result'.value = data.qas[k]]_vars

\* updatePrompt was refused on a clean document that holds records: it is still clean, with
\* no timer set
C22_Witness ==
  /\ call.op = "updatePrompt" /\ call.id = 404
  /\ result.threw
  /\ Len(data.qas) = 3
  /\ ~isDirty /\ autoSaveTimeout = {}

\* the place of the first occurrence of the id in the list
FirstListed(ids, id) == CHOOSE i \in 1..Len(ids) : ids[i] = id /\ \A j \in 1..(i - 1) : ids[j] # id

\* C23: batchDelete(ids) does not throw, whatever ids are missing or repeated in the list;
\* it removes the records whose id is listed and keeps the others in order, returns the
\* removed records, one for each listed id that a record had, in the order the ids are first
\* listed, emits promptDeleted for each of them in that order and then batchDeleted once,
\* with the list it returns.
C23_BatchDeleteSkipsFailures ==
  [][(call'.op = "batchDelete") =>
       LET listed == {call'.ids[i] : i \in 1..Len(call'.ids)}
           deleted == result'.value
       IN /\ ~result'.threw
          /\ data'.qas = SelectSeq(data.qas, LAMBDA qa : qa.id \notin listed)
          /\ Len(deleted) = Cardinality(listed \cap QaIds(data.qas))
          /\ \A k \in 1..Len(deleted) :
               /\ deleted[k].id \in listed
               /\ deleted[k] = data.qas[FirstWithId(data.qas, deleted[k].id)]
               /\ \A j \in 1..(k - 1) :
                    FirstListed(call'.ids, deleted[j].id) < FirstListed(call'.ids, deleted[k].id)
               /\ emitted'[k].event = "promptDeleted"
               /\ emitted'[k].payload = deleted[k]
          /\ Len(emitted') = Len(deleted) + 1
          /\ emitted'[Len(emitted')].event = "batchDeleted"
          /\ emitted'[Len(emitted')].payload = deleted
          /\ isDirty' = (isDirty \/ deleted # <<>>)]_vars

\* a list with a missing id first and an id listed twice: one record deleted and returned,
\* the other two kept
C23_Witness ==
  /\ call.op = "batchDelete"
  /\ Len(call.ids) = 3
  /\ call.ids[1] = 404 /\ call.ids[2] = call.ids[3]
  /\ ~result.threw
  /\ Len(result.value) = 1 /\ result.value[1].id = call.ids[2]
  /\ EventNames = <<"promptDeleted", "batchDeleted">>
  /\ Len(data.qas) = 2

Records(qas) == {qas[i] : i \in 1..Len(qas)}

\* the record passes the folder, category, rating and dateRange filters that are supplied
Satisfies(qa, filters, supplied(_)) ==
  /\ supplied("folder") => (filters.folder = "all" \/ qa.folder = filters.folder)
  /\ supplied("category") => qa.category = filters.category
  /\ supplied("rating") => qa.rating >= filters.rating
  /\ supplied("dateRange") =>
       (qa.timestamp >= filters.dateRange.start /\ qa.timestamp <= filters.dateRange.end)

\* getPrompts returned each record that passes the supplied filters once and no other, and
\* left the document and the dirty flag alone
QueryOutcome(supplied(_)) ==
  /\ ~result'.threw
  /\ Records(result'.value) = {qa \in Records(data.qas) : Satisfies(qa, call'.filters, supplied)}
  /\ Len(result'.value) = Cardinality(Records(result'.value))
  /\ data' = data
  /\ isDirty' = isDirty

\* C24 as stated: getPrompts(filters), for filters without a search term, returns exactly the
\* records that pass every filter the filters object holds (folder equal, all passing every
\* record; category equal; rating at least the threshold; timestamp within the dateRange,
\* ends included) and leaves the records, their order and the dirty flag unchanged.
C24_QueryFilters ==
  [][(call'.op = "getPrompts" /\ ~Has(call'.filters, "search")) =>
       QueryOutcome(LAMBDA key : Has(call'.filters, key))]_vars

\* C24, amended: as stated, a filter counting as supplied when its value is not empty: a
\* folder or category of "" and a rating threshold of 0 filter nothing.
C24_QueryTruthyFilters ==
  [][(call'.op = "getPrompts" /\ ~Has(call'.filters, "search")) =>
       QueryOutcome(LAMBDA key :
                      /\ Has(call'.filters, key)
                      /\ CASE key = "rating" -> call'.filters[key] # 0
                            [] key = "dateRange" -> TRUE
                            [] OTHER -> call'.filters[key] # "")]_vars

\* the folder archive was asked for: two of the three records came back, both of folder
\* archive, and the one left out is of another folder
C24_Witness ==
  /\ call.op = "getPrompts" /\ call.filters = [folder |-> "archive"]
  /\ Len(data.qas) = 3
  /\ Len(result.value) = 2
  /\ \A i \in 1..2 : result.value[i].folder = "archive"

\* the sort key of a query
SortKey(filters) == IF Has(filters, "sortBy") /\ filters.sortBy # "" THEN filters.sortBy ELSE "newest"
\* the place of the record in the document
PlaceOf(qas, qa) == CHOOSE i \in 1..Len(qas) : qas[i] = qa

\* C25: the list getPrompts returns is in the order of its sort key: timestamps falling for
\* newest and for no key, rising for oldest, views falling for mostViewed, ratings falling
\* for rating; with a key the store does not know, the records are in document order.
C25_QuerySorted ==
  [][(call'.op = "getPrompts") =>
       LET list == result'.value
           sortBy == SortKey(call'.filters)
       IN /\ Records(list) \subseteq Records(data.qas)
          /\ \A i, j \in 1..Len(list) :
               i < j =>
                 CASE sortBy = "newest" -> list[i].timestamp >= list[j].timestamp
                   [] sortBy = "oldest" -> list[i].timestamp <= list[j].timestamp
                   [] sortBy = "mostViewed" -> list[i].views >= list[j].views
                   [] sortBy = "rating" -> list[i].rating >= list[j].rating
                   [] sortBy = "alphabetical" -> TRUE
                   [] OTHER -> PlaceOf(data.qas, list[i]) < PlaceOf(data.qas, list[j])]_vars

\* the three records were asked for by views: they came back 103, 101, 102, which is not
\* the order of the document
C25_Witness ==
  /\ call.op = "getPrompts" /\ call.filters = [sortBy |-> "mostViewed"]
  /\ [i \in 1..3 |-> data.qas[i].id] = <<101, 102, 103>>
  /\ Len(result.value) = 3
  /\ [i \in 1..3 |-> result.value[i].id] = <<103, 101, 102>>

\* how many keywords of each category of the table occur in the lowercased text, a keyword
\* listed twice counting twice; tabulated over the texts of the model
KeywordCounts ==
  [prompt \in Prompts |->
     [i \in 1..Len(categoryKeywords) |->
        Cardinality({k \in 1..Len(categoryKeywords[i][2]) :
                       includes(toLowerCase(Spell[prompt]), Spell[categoryKeywords[i][2][k]])})]]

\* C26: categorizePrompt(text) returns general when no keyword of any category occurs in
\* the lowercased text, and otherwise the first category of the table among those with the
\* greatest keyword count; for "How do I debug this Python function?" it returns coding. The
\* call changes nothing.
C26_CategorizeByKeywordCount ==
  [][(call'.op = "categorizePrompt") =>
       LET count == KeywordCounts[call'.prompt]
       IN /\ ~result'.threw
          /\ IF \A i \in DOMAIN count : count[i] = 0
             THEN result'.value = "general"
             ELSE \E i \in DOMAIN count :
                    /\ result'.value = categoryKeywords[i][1]
                    /\ \A j \in DOMAIN count : count[j] <= count[i]
                    /\ \A j \in 1..(i - 1) : count[j] < count[i]
          /\ (call'.prompt = "How do I debug this Python function?") =>
               (result'.value = "coding" /\ count[1] = 3)
          /\ data' = data /\ isDirty' = isDirty /\ emitted' = <<>>]_vars

\* a tie: goals is a keyword of business and of productivity and of no other category, and
\* the text goals is put in business, the earlier of the two
C26_Witness ==
  /\ call.op = "categorizePrompt" /\ call.prompt = "goals"
  /\ KeywordCounts["goals"][2] = 1 /\ KeywordCounts["goals"][5] = 1
  /\ categoryKeywords[2][1] = "business" /\ categoryKeywords[5][1] = "productivity"
  /\ result.value = "business"

\* the value of an option: what the caller gave, or the default when the caller gave none
OptionOr(options, key, default) == IF Has(options, key) THEN options[key] ELSE default

\* C27: addPrompt puts one new record in front of the records there were, which stay as they
\* were and in their order; the new record has an id no record had, views 0, the folder and
\* the rating of the options or else default and 0, and a score in 7..10; the document is
\* marked dirty, the debounced save is scheduled, and promptAdded is emitted once, with the
\* new record, which is also what the call returns.
C27_AddPromptPrepends ==
  [][(call'.op = "addPrompt") =>
       /\ ~result'.threw
       /\ Len(data'.qas) = Len(data.qas) + 1
       /\ Tail(data'.qas) = data.qas
       /\ LET newQA == data'.qas[1]
          IN /\ newQA.id \notin QaIds(data.qas)
             /\ newQA.views = 0
             /\ newQA.folder = OptionOr(call'.options, "folder", "default")
             /\ newQA.rating = OptionOr(call'.options, "rating", 0)
             /\ newQA.score \in 7..10
             /\ result'.value = newQA
             /\ Len(emitted') = 1
             /\ emitted'[1].event = "promptAdded"
             /\ emitted'[1].payload = newQA
       /\ isDirty'
       /\ autoSaveTimeout' # {}]_vars

\* C28: validateQAData does not throw, whatever it is given: for every text handed to
\* importData that parses, be it null, a document without qas, one whose qas holds null or
\* a record with a rating out of range, the validation returns a flag and an error list,
\* the flag being true exactly when the list is empty.
C28_ValidateNeverRaises ==
  [][(call'.op = "importData" /\ Parses(ImportedText)) =>
       LET value == JSONparse(ImportedText)
       IN /\ ~validateThrows(value)
          /\ isValid(value) <=> (validateQAData(value) = <<>>)
          /\ ~(result'.threw
               /\ result'.value = "TypeError: Cannot read properties of null (reading 'id')")]_vars

\* C29: incrementViews and updateRating with an id that no record has return without
\* throwing and change nothing: not the document, not the dirty flag, not the debounce
\* timer, not the backend, and no event is emitted; incrementViews with an id some record has
\* adds 1 to the views of the first record with the id and leaves every other record as it
\* was.
C29_MissingIdIsNoOp ==
  [][/\ (call'.op \in {"incrementViews", "updateRating"} /\ call'.id \notin QaIds(data.qas)) =>
          /\ ~result'.threw
          /\ data' = data
          /\ isDirty' = isDirty
          /\ autoSaveTimeout' = autoSaveTimeout
          /\ localStorage' = localStorage
          /\ emitted' = <<>>
     /\ (call'.op = "incrementViews" /\ call'.id \in QaIds(data.qas)) =>
          LET k == FirstWithId(data.qas, call'.id)
          IN /\ ~result'.threw
             /\ Len(data'.qas) = Len(data.qas)
             /\ data'.qas[k].views = data.qas[k].views + 1
             /\ data'.qas[k].id = call'.id
             /\ \A i \in 1..Len(data.qas) : i # k => data'.qas[i] = data.qas[i]]_vars

\* incrementViews was called with a missing id on a clean document that holds records: the
\* document is still clean and no save is scheduled
C29_Witness ==
  /\ call.op = "incrementViews" /\ call.id = 404
  /\ ~result.threw
  /\ Len(data.qas) > 0
  /\ ~isDirty /\ autoSaveTimeout = {}
  /\ emitted = <<>>

\* C30: updatePrompt (whatever the updates), incrementViews, updateRating, moveToFolder and
\* deleteFolder keep every record in its place with the id, createdAt and timestamp it was
\* created with.
C30_IdentityImmutable ==
  [][(call'.op \in {"updatePrompt", "incrementViews", "updateRating", "moveToFolder",
                    "deleteFolder"}) =>
       /\ Len(data'.qas) = Len(data.qas)
       /\ \A i \in 1..Len(data.qas) :
            /\ data'.qas[i].id = data.qas[i].id
            /\ data'.qas[i].createdAt = data.qas[i].createdAt
            /\ data'.qas[i].timestamp = data.qas[i].timestamp]_vars

\* the backend holds a document whose records and folders are those of the document d
InSync(d, storage) ==
  /\ HasItem(storage, StorageKey)
  /\ Parses(getItem(storage, StorageKey))
  /\ LET persisted == JSONparse(getItem(storage, StorageKey))
     IN /\ IsObject(persisted)
        /\ Has(persisted, "qas") /\ persisted.qas = d.qas
        /\ Has(persisted, "folders") /\ persisted.folders = d.folders

\* C31: once the store has saved, a clean dirty flag means that the backend holds the
\* records and folders of the document in memory: a call that changes records or folders
\* returns or throws with the dirty flag set (or with the change written), and the flag is
\* cleared only by a call that wrote the document and emitted saved.
C31_CleanMeansPersisted ==
  [][/\ (~isDirty' /\ HasItem(localStorage', StorageKey)) => InSync(data', localStorage')
     /\ (data'.qas # data.qas \/ data'.folders # data.folders) =>
          (isDirty' \/ InSync(data', localStorage'))
     /\ (isDirty /\ ~isDirty') =>
          /\ \E i \in 1..Len(emitted') : emitted'[i].event = "saved"
          /\ InSync(data', localStorage')]_vars

\* C32: the document the backend holds always passes validateQAData, and a store constructed
\* over a backend that holds a document with records starts with exactly these records.
C32_SavedDocumentLoads ==
  [][/\ HasItem(localStorage', StorageKey) =>
          /\ Parses(getItem(localStorage', StorageKey))
          /\ isValid(JSONparse(getItem(localStorage', StorageKey)))
     /\ (call'.op = "constructor" /\ HasItem(localStorage, StorageKey)) =>
          LET savedData == JSONparse(getItem(localStorage, StorageKey))
          IN savedData.qas # <<>> => data'.qas = savedData.qas]_vars
====
